---- MODULE Spec2Model ----
(***************************************************************************)
(* A model of the market-data ingestion core of crypto-auto-trader:        *)
(*   - KrakenAuth (kraken/auth.py): the request signer and its nonce       *)
(*   - KrakenRESTClient._make_request (modules/data_ingestion/             *)
(*     rest_client.py): the retrying fetcher                               *)
(*   - KrakenWebSocketClient (modules/data_ingestion/websocket_client.py): *)
(*     the reconnecting stream connection                                  *)
(* Each component has its own specification over the shared variables.     *)
(***************************************************************************)
EXTENDS Integers, Sequences, FiniteSets, TLC

\* ---------------------------------------------------------------- bounds
NumThreads == 2   \* threads calling into one KrakenAuth, one SymbolManager
MaxClock == 3     \* clock readings are drawn from 0..MaxClock
MaxSigns == 3     \* completed _generate_nonce calls per behaviour
MaxRetries == 3   \* max_retries is drawn from 0..MaxRetries
MaxFail == 4      \* a transport fails on its first 0..MaxFail attempts
MaxStarts == 2    \* calls of KrakenWebSocketClient.start
MaxStops == 2     \* calls of KrakenWebSocketClient.stop per started thread
MaxConnects == 2  \* connect attempts that succeed
MaxPending == 1   \* unfinished _disconnect coroutines when unsubscribe_all adds one
MaxLoads == 1     \* calls of DataStream.load_symbol
MaxHistory == 2   \* history_count is 0, 1 or MaxHistory
MaxBars == 2      \* bars in one answer of the history source
MaxTicks == 2     \* frames handed to DataStream._websocket_callback
MaxCatalogFetches == 2   \* calls of get_tradeable_pairs when some fail
MaxFrames == 3    \* frames that arrive on the connection
MaxInbox == 2     \* frames received and not yet read by _message_handler
DstEnd == 2       \* the epoch time at which a zone with summer time falls back
InitialMaxCandles == 1 \* stands for the 1000 of DataStream.__init__ (line 43):
                  \* the code only compares lengths with it and takes its
                  \* maximum with 2 * history_count

\* ---------------------------------------------------- program constants
MaxReconnect == 5 \* _connect_with_retry: max_retries = 5
BackoffCap == 30  \* _connect_with_retry: min(2 ** retry_count, 30)
DefaultMaxRetries == 3 \* KrakenRESTClient.__init__: max_retries: int = 3

VARIABLES
    \* KrakenAuth
    last_nonce,   \* self._last_nonce
    sign_pc,      \* per thread: the line of _generate_nonce it is about to run
    nonce,        \* per thread: the local variable nonce of _generate_nonce
    issued,       \* the nonces returned so far, in the order of their return
    sign_error    \* per thread: whether its last sign_request raised ValueError

VARIABLES
    \* KrakenRESTClient._make_request
    max_retries,  \* self.max_retries
    fetch_pc,     \* "idle", "attempt", "backoff", "returned", "raised"
    attempt,      \* the loop variable attempt
    fail_first,   \* the transport fails on the first fail_first attempts ...
    then_body,    \* ... and then answers 200 with this body
    outcomes,     \* what the transport did on each attempt of this call
    sleeps,       \* the wait_time of each time.sleep of this call
    fetch_error   \* the exception a raised call ended with

VARIABLES
    \* KrakenWebSocketClient
    thread,           \* self.thread: "none", "alive", "dead"
    loop,             \* self.loop: "none", "open", "closed"
    stop_event,       \* self.stop_event.is_set()
    websocket,        \* self.websocket: 0 (None) or the id of a transport
    connected,        \* self.connected
    retry_count,      \* the local retry_count of _connect_with_retry
    wpc,              \* where the worker thread's _connect_with_retry stands
    disc_pending,     \* _disconnect coroutines scheduled and not yet begun
    disc_closing,     \* _disconnect coroutines inside await websocket.close()
    send_task,        \* the last scheduled _send_message coroutine: "none",
                      \* "pending", "sent" (True), "refused" (False)
    open_ws,          \* the transports that are open
    ws_count,         \* transports opened so far (the newest one's id)
    connect_attempts, \* connect attempts begun since the last success or
                      \* since _connect_with_retry began
    waits,            \* the backoff waits slept since then
    cpc,              \* where the calling thread stands inside stop/subscribe
    last_call,        \* how the caller's last completed call ended: "ok"
                      \* (returned), "true"/"false" (returned that),
                      \* "refused" (start: already running), "raised"
    starts,           \* calls of start so far
    stops,            \* calls of stop since the last start that started a thread
    gave_up           \* whether _connect_with_retry has ever given up (line 152)

VARIABLES
    \* what the exchange has received on the stream's transports
    subscribed        \* the transports a subscribe message was sent on

VARIABLES
    \* DataStream (utils/data_stream.py)
    candles_data,     \* self._candles_data: (symbol, timeframe) -> its rows
    tracked_symbols,  \* self._tracked_symbols: symbol -> pair_info
    max_candles,      \* self._max_candles
    data_callbacks,   \* len(self._data_callbacks)
    error_callbacks,  \* len(self._error_callbacks)
    pairs_cache,      \* SymbolManager.pairs_cache: "none" or "loaded"
    calls,            \* the callbacks the latest step invoked, in order
    lpc,              \* where the running load_symbol stands: "idle",
                      \* "timeframes" (the loop of line 153), "finish" (192)
    l_symbol,         \* its symbol, upper-cased (line 118)
    l_timeframes,     \* its valid timeframes not yet loaded
    history_count,    \* its history_count
    success_count,    \* its success_count
    returned,         \* how the last load_symbol ended: "none", "true",
                      \* "false", "raised"
    loads,            \* calls of load_symbol since the initial state
    ticks,            \* calls of _websocket_callback since the initial state
    dst_end           \* the local time zone: the epoch time at which its
                      \* clock falls back by one unit, 0 for a fixed offset

VARIABLES
    \* KrakenWebSocketClient._message_handler on one connection
    inbox,            \* the frames received and not yet read, oldest first
    arrived,          \* frames received so far
    read_no,          \* frames read by the iteration of line 189 so far
    dpc,              \* "iterate" (189), "callback" (218), "handler" (225),
                      \* "left" (after the break of line 191)
    cur,              \* the frame being processed
    cb_done,          \* frames whose callback stage is over
    h_done,           \* frames whose internal-handler stage is over
    subscription_status \* self.subscription_status: channel -> status

VARIABLES
    \* a live tick in two steps, and the readers of DataStream
    t_pc,             \* the tick being applied: "idle", or "store" when its
                      \* new Timeline is built and not yet stored
    t_key,            \* its key (symbol, '1m')
    t_pending,        \* the values still to store under the key, in order
    complete,         \* every <<key, rows>> that was a Timeline before or
                      \* after a write
    r_pc,             \* the running get_all_data: "idle", or the timeframe
                      \* it looks at next
    r_seen,           \* the <<key, rows>> the last read accessor got
    r_latest          \* the row get_latest_candle returned, or NoCandle

VARIABLES
    \* SymbolManager (utils/symbol_manager.py) under concurrent callers
    symbol_map,       \* self.symbol_map: pair_key -> pair_info
    catalog_fetches,  \* calls of data_manager.get_tradeable_pairs so far
    find_pc,          \* per caller: "idle", "fetch" (line 11), "build"
                      \* (line 12), "lookup" (line 58), "done"
    build_todo,       \* per caller: the catalog entries line 19 has still
                      \* to go through
    find_op,          \* per caller: the method it called
    find_arg,         \* per caller: the symbol it resolves
    find_quote,       \* per caller: the quote it prefers
    listed,           \* per caller: the keys list_all_pairs returned
    found             \* per caller: what find_pair returned

VARIABLES
    \* KrakenTrader._make_request (kraken/trade.py)
    trade_pc,         \* "idle", "signing", "attempt", "returned", "raised"
    trade_attempt,    \* the loop variable attempt
    trade_nonce,      \* data["nonce"], <<>> when absent
    trade_sign,       \* headers["API-Sign"], <<>> when absent
    sent              \* the nonce and the signature of each post of the call

VARIABLES
    \* DataStream.close and the REST session of the history source
    closing,          \* DataStream.close: "none", "running", "returned",
                      \* "raised"
    session_open,     \* whether KrakenRESTClient._session is open
    failed            \* the inbound messages an error was logged for (lines
                      \* 197, 199, 222), by their number

signer_vars == <<last_nonce, sign_pc, nonce, issued, sign_error>>
fetch_vars == <<max_retries, fetch_pc, attempt, fail_first, then_body,
                outcomes, sleeps, fetch_error>>

stream_vars == <<thread, loop, stop_event, websocket, connected, retry_count,
                 wpc, disc_pending, disc_closing, send_task, open_ws,
                 ws_count, connect_attempts, waits, cpc, last_call, starts,
                 stops, gave_up>>

wire_vars == <<subscribed>>

data_vars == <<candles_data, tracked_symbols, max_candles, data_callbacks,
               error_callbacks, pairs_cache, calls, lpc, l_symbol,
               l_timeframes, history_count, success_count, returned, loads,
               ticks, dst_end>>

dispatch_vars == <<inbox, arrived, read_no, dpc, cur, cb_done, h_done,
                   subscription_status>>

race_vars == <<t_pc, t_key, t_pending, complete, r_pc, r_seen, r_latest>>

resolver_vars ==
    <<symbol_map, catalog_fetches, find_pc, build_todo, find_op, find_arg,
      find_quote, listed, found>>

trade_vars == <<trade_pc, trade_attempt, trade_nonce, trade_sign, sent>>

close_vars == <<closing, session_open>>

vars == <<signer_vars, fetch_vars, stream_vars, wire_vars, data_vars,
          dispatch_vars, race_vars, resolver_vars, trade_vars, close_vars, failed>>

\* ------------------------------------------------------------ KrakenAuth
Threads == 1..NumThreads
Clock == 0..MaxClock
\* url_path values: the empty path and one private endpoint
Paths == {"", "/0/private/Balance"}

\* KrakenAuth.__init__: self._last_nonce = 0
SignerInit ==
    /\ last_nonce = 0
    /\ sign_pc = [t \in Threads |-> "idle"]
    /\ nonce = [t \in Threads |-> 0]
    /\ issued = <<>>
    /\ sign_error = [t \in Threads |-> FALSE]

\* sign_request that tests url_path after the nonce is generated
sign_request_late_test(t, path) ==
    /\ sign_pc[t] = "idle"
    /\ Len(issued) + Cardinality({u \in Threads : sign_pc[u] # "idle"}) < MaxSigns
    /\ sign_error' = [sign_error EXCEPT ![t] = (path = "")]
    /\ sign_pc' = [sign_pc EXCEPT ![t] = "L96"]
    /\ UNCHANGED <<last_nonce, nonce, issued>>

\* sign_request, lines 59-66: an empty url_path raises ValueError before the
\* nonce is generated; otherwise _generate_nonce is entered.
sign_request(t, path) ==
    /\ sign_pc[t] = "idle"
    /\ Len(issued) + Cardinality({u \in Threads : sign_pc[u] # "idle"}) < MaxSigns
    /\ IF path = ""
       THEN /\ sign_error' = [sign_error EXCEPT ![t] = TRUE]
            /\ UNCHANGED <<last_nonce, sign_pc, nonce, issued>>
       ELSE /\ sign_error' = [sign_error EXCEPT ![t] = FALSE]
            /\ sign_pc' = [sign_pc EXCEPT ![t] = "L96"]
            /\ UNCHANGED <<last_nonce, nonce, issued>>

\* line 96: nonce = int(time.time() * 1_000_000); the clock may read anything
ReadClock(t, c) ==
    /\ sign_pc[t] = "L96"
    /\ nonce' = [nonce EXCEPT ![t] = c]
    /\ sign_pc' = [sign_pc EXCEPT ![t] = "L99"]
    /\ UNCHANGED <<last_nonce, issued, sign_error>>

\* line 99 with < for <=: a reading equal to the last nonce is kept
NonceIsStaleStrict(n, last) == n < last

\* line 99: if nonce <= self._last_nonce
NonceIsStale(n, last) == n <= last

CompareNonce(t) ==
    /\ sign_pc[t] = "L99"
    /\ sign_pc' = [sign_pc EXCEPT ![t] =
                     IF NonceIsStale(nonce[t], last_nonce) THEN "L100" ELSE "L102"]
    /\ UNCHANGED <<last_nonce, nonce, issued, sign_error>>

\* line 100: nonce = self._last_nonce + 1
BumpNonce(t) ==
    /\ sign_pc[t] = "L100"
    /\ nonce' = [nonce EXCEPT ![t] = last_nonce + 1]
    /\ sign_pc' = [sign_pc EXCEPT ![t] = "L102"]
    /\ UNCHANGED <<last_nonce, issued, sign_error>>

\* lines 102-103: self._last_nonce = nonce; return str(nonce).  str() of an
\* integer is its decimal numeral, one numeral per integer, so the returned
\* nonces are compared by their integer values.
StoreNonce(t) ==
    /\ sign_pc[t] = "L102"
    /\ last_nonce' = nonce[t]
    /\ issued' = Append(issued, nonce[t])
    /\ sign_pc' = [sign_pc EXCEPT ![t] = "idle"]
    /\ UNCHANGED <<nonce, sign_error>>

\* KrakenAuth(api_key, api_secret), lines 20-43, as PortfolioFactory and
\* TraderManager construct it: the new signer, with self._last_nonce = 0,
\* takes the place of the one in use while no call runs
NewSigner ==
    /\ \A u \in Threads : sign_pc[u] = "idle"
    /\ last_nonce # 0
    /\ last_nonce' = 0
    /\ UNCHANGED <<sign_pc, nonce, issued, sign_error>>

\* Calls executed one after another: a call begins only when no other runs.
SignSequential(t, path) ==
    /\ \A u \in Threads : sign_pc[u] = "idle"
    /\ sign_request(t, path)

\* Calls from several threads: a call may begin at any time.
SignConcurrent(t, path) == sign_request(t, path)

\* ------------------------------------------- KrakenRESTClient._make_request
\* What a response body is to lines 98-112: not JSON, JSON with a non-empty
\* "error" list, JSON without "result", or JSON with "result" (and no error).
Bodies == {"not_json", "error_list", "no_result", "result"}

\* What self._session.get does on one attempt: it raises a
\* requests.RequestException (exc), or it returns a response with an HTTP
\* status that raise_for_status accepts (status_ok) or rejects, and a body.
Exception == [exc |-> TRUE, status_ok |-> FALSE, body |-> "none"]
Response(ok, b) == [exc |-> FALSE, status_ok |-> ok, body |-> b]

\* The outcomes that are a failed attempt of the transport
FailedOutcomes == {Exception} \cup {Response(FALSE, b) : b \in Bodies}

Min(a, b) == IF a <= b THEN a ELSE b

\* The transport of one call: it fails on attempts 1..fail_first (in any of
\* the ways a transport fails) and answers 200 with then_body afterwards.
Transport(n) ==
    IF n <= fail_first THEN FailedOutcomes ELSE {Response(TRUE, then_body)}

\* lines 114-125 with every exception retried: an exchange error, a missing
\* result and an invalid body are treated like a network failure
ClassifyRetryAll(o) ==
    IF ~o.exc /\ o.status_ok /\ o.body = "result" THEN "return" ELSE "retry"

\* lines 89-125, one pass of the try block over outcome o:
\*   "retry"    requests.RequestException (raised by get or raise_for_status)
\*   "terminal" any other Exception: invalid JSON (the ValueError is turned
\*              into a plain Exception at line 102), a non-empty error list,
\*              a missing result
\*   "return"   return result["result"]
Classify(o) ==
    IF o.exc THEN "retry"
    ELSE IF ~o.status_ok THEN "retry"
    ELSE IF o.body = "not_json" THEN "terminal"
    ELSE IF o.body = "error_list" THEN "terminal"
    ELSE IF o.body = "no_result" THEN "terminal"
    ELSE "return"

\* line 115 one attempt early: the last retry is never made
LastAttemptEarly(a, mr) == a + 1 >= mr

\* line 115: if attempt == self.max_retries
LastAttempt(a, mr) == a = mr

\* line 119: wait_time = 2 ** attempt
WaitTime(a) == 2 ^ a

\* KrakenRESTClient.__init__ with max_retries = mr
FetchInit(mr) ==
    /\ max_retries = mr
    /\ fetch_pc = "idle"
    /\ attempt = 0
    /\ fail_first = 0
    /\ then_body = "result"
    /\ outcomes = <<>>
    /\ sleeps = <<>>
    /\ fetch_error = "none"

\* A call of _make_request against a transport failing k times, then
\* answering with body b: line 85 starts the loop at attempt 0.
MakeRequest(k, b) ==
    /\ fetch_pc = "idle"
    /\ fetch_pc' = "attempt"
    /\ attempt' = 0
    /\ fail_first' = k
    /\ then_body' = b
    /\ outcomes' = <<>>
    /\ sleeps' = <<>>
    /\ fetch_error' = "none"
    /\ UNCHANGED max_retries

\* lines 86-125: one attempt, up to its return, its raise or its sleep
Attempt(o) ==
    /\ fetch_pc = "attempt"
    /\ o \in Transport(Len(outcomes) + 1)
    /\ outcomes' = Append(outcomes, o)
    /\ LET c == Classify(o) IN
       /\ fetch_pc' = IF c = "return" THEN "returned"
                      ELSE IF c = "terminal" THEN "raised"
                      ELSE IF LastAttempt(attempt, max_retries) THEN "raised"
                      ELSE "backoff"
       /\ fetch_error' = IF c = "terminal" THEN "api"
                         ELSE IF c = "retry" /\ LastAttempt(attempt, max_retries)
                              THEN "network"
                         ELSE "none"
    /\ UNCHANGED <<max_retries, attempt, fail_first, then_body, sleeps>>

\* lines 119-121 and the next turn of line 85: time.sleep(2 ** attempt), then
\* the next attempt, or the end of range(max_retries + 1) (return None)
Backoff ==
    /\ fetch_pc = "backoff"
    /\ sleeps' = Append(sleeps, WaitTime(attempt))
    /\ attempt' = attempt + 1
    /\ fetch_pc' = IF attempt + 1 <= max_retries THEN "attempt" ELSE "returned"
    /\ UNCHANGED <<max_retries, fail_first, then_body, outcomes, fetch_error>>

\* The call is over; the client is ready for the next call.
FetchDone ==
    /\ fetch_pc \in {"returned", "raised"}
    /\ fetch_pc' = "idle"
    /\ UNCHANGED <<max_retries, attempt, fail_first, then_body, outcomes,
                   sleeps, fetch_error>>

\* ---------------------------------------------------- KrakenWebSocketClient
\* KrakenWebSocketClient.__init__
StreamInit ==
    /\ thread = "none"
    /\ loop = "none"
    /\ stop_event = FALSE
    /\ websocket = 0
    /\ connected = FALSE
    /\ retry_count = 0
    /\ wpc = "none"
    /\ disc_pending = 0
    /\ disc_closing = 0
    /\ send_task = "none"
    /\ open_ws = {}
    /\ ws_count = 0
    /\ connect_attempts = 0
    /\ waits = <<>>
    /\ cpc = "idle"
    /\ last_call = "none"
    /\ starts = 0
    /\ stops = 0
    /\ gave_up = FALSE

\* The worker's coroutine is suspended in an await, so that the event loop
\* runs the coroutines scheduled from other threads: websockets.connect
\* (line 164), the message iteration (189), asyncio.sleep (140, 150).
AtAwait ==
    /\ thread = "alive"
    /\ loop = "open"
    /\ wpc \in {"connecting", "handler", "keepalive", "backoff"}

\* ---- the calling thread

\* start, lines 94-100: a live thread makes it return; otherwise the stop
\* event is cleared and a new thread runs _run_event_loop.
start ==
    /\ cpc = "idle"
    /\ starts < MaxStarts
    /\ starts' = starts + 1
    /\ IF thread = "alive"
       THEN /\ last_call' = "refused"
            /\ UNCHANGED <<thread, stop_event, wpc, stops>>
       ELSE /\ stop_event' = FALSE
            /\ thread' = "alive"
            /\ wpc' = "boot"
            /\ stops' = 0
            /\ last_call' = "ok"
    /\ UNCHANGED <<loop, websocket, connected, retry_count, disc_pending,
                   disc_closing, send_task, open_ws, ws_count,
                   connect_attempts, waits, cpc, gave_up>>

\* stop, line 106: self.stop_event.set()
StopSetEvent ==
    /\ cpc = "idle"
    /\ stops < MaxStops
    /\ stops' = stops + 1
    /\ stop_event' = TRUE
    /\ cpc' = "stop_L108"
    /\ UNCHANGED <<thread, loop, websocket, connected, retry_count, wpc,
                   disc_pending, disc_closing, send_task, open_ws, ws_count,
                   connect_attempts, waits, last_call, starts, gave_up>>

\* stop, line 108: if self.loop and not self.loop.is_closed()
LoopIsUsable(l) == l = "open"

StopCheckLoop ==
    /\ cpc = "stop_L108"
    /\ cpc' = IF LoopIsUsable(loop) THEN "stop_L109" ELSE "stop_L111"
    /\ UNCHANGED <<thread, loop, stop_event, websocket, connected,
                   retry_count, wpc, disc_pending, disc_closing, send_task,
                   open_ws, ws_count, connect_attempts, waits, last_call,
                   starts, stops, gave_up>>

\* stop, line 109: asyncio.run_coroutine_threadsafe(self._disconnect(),
\* self.loop); call_soon_threadsafe raises RuntimeError on a closed loop.
StopSchedule ==
    /\ cpc = "stop_L109"
    /\ IF loop = "open"
       THEN /\ disc_pending' = disc_pending + 1
            /\ cpc' = "stop_L111"
            /\ UNCHANGED last_call
       ELSE /\ last_call' = "raised"
            /\ cpc' = "idle"
            /\ UNCHANGED disc_pending
    /\ UNCHANGED <<thread, loop, stop_event, websocket, connected,
                   retry_count, wpc, disc_closing, send_task, open_ws,
                   ws_count, connect_attempts, waits, starts, stops, gave_up>>

\* stop, lines 111-114: join(timeout=5.0) returns when the thread has ended,
\* or after five seconds with the thread still alive: the worker then sits
\* in one of its awaits (a connect, a sleep, the wait for a message), the
\* only places where it spends time.
StopJoin ==
    /\ cpc = "stop_L111"
    /\ thread # "alive" \/ AtAwait
    /\ cpc' = "idle"
    /\ last_call' = "ok"
    /\ UNCHANGED <<thread, loop, stop_event, websocket, connected,
                   retry_count, wpc, disc_pending, disc_closing, send_task,
                   open_ws, ws_count, connect_attempts, waits, starts, stops,
                   gave_up>>

\* subscribe_ticker/ohlc/trades/book/spread, e.g. lines 307-327, up to the
\* wait for the future: False when not connected or without a loop,
\* RuntimeError from run_coroutine_threadsafe on a closed loop.
subscribe ==
    /\ cpc = "idle"
    /\ IF ~connected \/ loop = "none"
       THEN /\ last_call' = "false"
            /\ UNCHANGED <<cpc, send_task>>
       ELSE IF loop = "closed"
       THEN /\ last_call' = "raised"
            /\ UNCHANGED <<cpc, send_task>>
       ELSE /\ send_task' = "pending"
            /\ cpc' = "subscribe_wait"
            /\ UNCHANGED last_call
    /\ UNCHANGED <<thread, loop, stop_event, websocket, connected,
                   retry_count, wpc, disc_pending, disc_closing, open_ws,
                   ws_count, connect_attempts, waits, starts, stops, gave_up>>

\* e.g. lines 323-326: future.result(timeout=5.0); a timeout or an exception
\* gives False and leaves the coroutine scheduled.
SubscribeResult ==
    /\ cpc = "subscribe_wait"
    /\ cpc' = "idle"
    /\ last_call' = IF send_task = "sent" THEN "true"
                    ELSE "false"
    /\ UNCHANGED <<thread, loop, stop_event, websocket, connected,
                   retry_count, wpc, disc_pending, disc_closing, send_task,
                   open_ws, ws_count, connect_attempts, waits, starts, stops,
                   gave_up>>

\* unsubscribe_all that reconnects by itself, as its comment at line 402
\* announces: once the worker has ended it starts a new one
unsubscribe_all_reconnects ==
    /\ cpc = "idle"
    /\ loop = "closed"
    /\ thread = "dead"
    /\ thread' = "alive"
    /\ wpc' = "boot"
    /\ last_call' = "ok"
    /\ UNCHANGED <<loop, stop_event, websocket, connected, retry_count,
                   disc_pending, disc_closing, send_task, open_ws, ws_count,
                   connect_attempts, waits, cpc, starts, stops, gave_up>>

\* unsubscribe_all, lines 403-404: if self.loop, schedule _disconnect (no
\* is_closed check: RuntimeError on a closed loop)
unsubscribe_all ==
    /\ cpc = "idle"
    /\ IF loop = "none"
       THEN /\ last_call' = "ok"
            /\ UNCHANGED disc_pending
       ELSE IF loop = "closed"
       THEN /\ last_call' = "raised"
            /\ UNCHANGED disc_pending
       ELSE /\ disc_pending + disc_closing < MaxPending
            /\ disc_pending' = disc_pending + 1
            /\ last_call' = "ok"
    /\ UNCHANGED <<thread, loop, stop_event, websocket, connected,
                   retry_count, wpc, disc_closing, send_task, open_ws,
                   ws_count, connect_attempts, waits, cpc, starts, stops,
                   gave_up>>

\* ---- the worker thread: _run_event_loop and _connect_with_retry

\* _run_event_loop, lines 119-121: a new event loop, then
\* _connect_with_retry begins with retry_count = 0 (line 130).
RunEventLoop ==
    /\ thread = "alive"
    /\ wpc = "boot"
    /\ loop' = "open"
    /\ retry_count' = 0
    /\ connect_attempts' = 0
    /\ waits' = <<>>
    /\ wpc' = "loop_head"
    /\ UNCHANGED <<thread, stop_event, websocket, connected, disc_pending,
                   disc_closing, send_task, open_ws, ws_count, cpc,
                   last_call, starts, stops,
                   gave_up>>

\* line 133 without the stop event
ShouldConnectIgnoringStop(stop, rc) == rc < MaxReconnect

\* line 133: while not self.stop_event.is_set() and retry_count < max_retries
ShouldConnect(stop, rc) == ~stop /\ rc < MaxReconnect

\* lines 133-135: the loop condition holds and a connect attempt begins
\* (_connect up to its await of websockets.connect, line 164).
BeginConnect ==
    /\ thread = "alive"
    /\ wpc = "loop_head"
    /\ ShouldConnect(stop_event, retry_count)
    /\ wpc' = "connecting"
    /\ connect_attempts' = connect_attempts + 1
    /\ UNCHANGED <<thread, loop, stop_event, websocket, connected,
                   retry_count, disc_pending, disc_closing, send_task,
                   open_ws, ws_count, waits, cpc, last_call, starts, stops,
                   gave_up>>

\* line 133: the loop condition fails and _connect_with_retry returns.
LeaveLoop ==
    /\ thread = "alive"
    /\ wpc = "loop_head"
    /\ ~ShouldConnect(stop_event, retry_count)
    /\ wpc' = "exiting"
    /\ UNCHANGED <<thread, loop, stop_event, websocket, connected,
                   retry_count, disc_pending, disc_closing, send_task,
                   open_ws, ws_count, connect_attempts, waits, cpc,
                   last_call, starts, stops, gave_up>>

\* _connect that sends the subscriptions of the earlier connections again on
\* the transport w it has just opened
ResendOnConnect(w, subs) == IF subs # {} THEN {w} ELSE {}

\* _connect, lines 172-176: between the connect and the message iteration
\* nothing is sent on the new transport w, whatever was subscribed before
\* (self.subscriptions is never filled nor read).
SentOnConnect(w, subs) == {}

\* lines 164-176: websockets.connect returns a transport; self.websocket and
\* self.connected are set and _message_handler starts iterating.
ConnectSucceeds ==
    /\ thread = "alive"
    /\ wpc = "connecting"
    /\ ws_count < MaxConnects
    /\ ws_count' = ws_count + 1
    /\ websocket' = ws_count + 1
    /\ open_ws' = open_ws \cup {ws_count + 1}
    /\ connected' = TRUE
    /\ wpc' = "handler"
    /\ connect_attempts' = 0
    /\ waits' = <<>>
    /\ UNCHANGED <<thread, loop, stop_event, retry_count, disc_pending,
                   disc_closing, send_task, cpc, last_call, starts, stops,
                   gave_up>>

\* line 144: wait_time = min(2 ** retry_count, 30)
BackoffWait(rc) == IF 2 ^ rc <= BackoffCap THEN 2 ^ rc ELSE BackoffCap

\* line 148 with <= for <: one more sleep after the last failure
MayRetryOnceMore(rc) == rc <= MaxReconnect

\* line 148: if retry_count < max_retries
MayRetry(rc) == rc < MaxReconnect

\* lines 142-153: websockets.connect raises; retry_count is incremented and
\* the coroutine sleeps wait_time, or gives up and breaks out of the loop.
ConnectFails ==
    /\ thread = "alive"
    /\ wpc = "connecting"
    /\ retry_count' = retry_count + 1
    /\ gave_up' = (gave_up \/ ~MayRetry(retry_count + 1))
    /\ IF MayRetry(retry_count + 1)
       THEN /\ waits' = Append(waits, BackoffWait(retry_count + 1))
            /\ wpc' = "backoff"
       ELSE /\ wpc' = "exiting"
            /\ UNCHANGED waits
    /\ UNCHANGED <<thread, loop, stop_event, websocket, connected,
                   disc_pending, disc_closing, send_task, open_ws, ws_count,
                   connect_attempts, cpc, last_call, starts, stops>>

\* line 150: asyncio.sleep(wait_time) is over; back to line 133.
BackoffOver ==
    /\ thread = "alive"
    /\ wpc = "backoff"
    /\ wpc' = "loop_head"
    /\ UNCHANGED <<thread, loop, stop_event, websocket, connected,
                   retry_count, disc_pending, disc_closing, send_task,
                   open_ws, ws_count, connect_attempts, waits, cpc,
                   last_call, starts, stops, gave_up>>

\* _message_handler has returned to _connect and _connect to line 136:
\* retry_count = 0, then line 139 decides between the keep-alive sleep and
\* the next turn of the outer loop.
KeepAlive(stop, conn) == ~stop /\ conn

\* line 136 left out: the counter keeps the failures of before the connection
AfterHandlerKeepsCount(conn) ==
    /\ UNCHANGED retry_count
    /\ wpc' = IF ~stop_event /\ conn THEN "keepalive" ELSE "loop_head"

AfterHandler(conn) ==
    /\ retry_count' = 0
    /\ wpc' = IF KeepAlive(stop_event, conn) THEN "keepalive" ELSE "loop_head"

\* lines 189-191: a message arrives; with the stop event set the iteration
\* breaks (self.connected and the transport stay as they are), otherwise
\* the message is processed and the iteration goes on.
MessageArrives ==
    /\ thread = "alive"
    /\ wpc = "handler"
    /\ ws_count \in open_ws
    /\ IF stop_event
       THEN AfterHandler(connected)
       ELSE UNCHANGED <<retry_count, wpc>>
    /\ UNCHANGED <<thread, loop, stop_event, websocket, connected,
                   disc_pending, disc_closing, send_task, open_ws, ws_count,
                   connect_attempts, waits, cpc, last_call, starts, stops,
                   gave_up>>

\* line 189: the remote side closes with code 1000 or 1001: the iteration
\* of the websockets connection ends without an exception, so neither
\* except clause of _message_handler runs.
RemoteClosesNormally ==
    /\ thread = "alive"
    /\ wpc = "handler"
    /\ ws_count \in open_ws
    /\ open_ws' = open_ws \ {ws_count}
    /\ AfterHandler(connected)
    /\ UNCHANGED <<thread, loop, stop_event, websocket, connected,
                   disc_pending, disc_closing, send_task, ws_count,
                   connect_attempts, waits, cpc, last_call, starts, stops,
                   gave_up>>

\* lines 201-206: the connection is lost with an error (a close code other
\* than 1000/1001, a keepalive ping timeout, any other exception):
\* self.connected = False
TransportFails ==
    /\ thread = "alive"
    /\ wpc = "handler"
    /\ ws_count \in open_ws
    /\ open_ws' = open_ws \ {ws_count}
    /\ connected' = FALSE
    /\ AfterHandler(FALSE)
    /\ UNCHANGED <<thread, loop, stop_event, websocket, disc_pending,
                   disc_closing, send_task, ws_count, connect_attempts,
                   waits, cpc, last_call, starts, stops, gave_up>>

\* line 189: the transport was closed by _disconnect (a local close, code
\* 1000): the iteration ends without an exception.
HandlerSeesClose ==
    /\ thread = "alive"
    /\ wpc = "handler"
    /\ ws_count \notin open_ws
    /\ AfterHandler(connected)
    /\ UNCHANGED <<thread, loop, stop_event, websocket, connected,
                   disc_pending, disc_closing, send_task, open_ws, ws_count,
                   connect_attempts, waits, cpc, last_call, starts, stops,
                   gave_up>>

\* lines 139-140: the keep-alive sleep is over and the condition fails.
KeepAliveOver ==
    /\ thread = "alive"
    /\ wpc = "keepalive"
    /\ ~KeepAlive(stop_event, connected)
    /\ wpc' = "loop_head"
    /\ UNCHANGED <<thread, loop, stop_event, websocket, connected,
                   retry_count, disc_pending, disc_closing, send_task,
                   open_ws, ws_count, connect_attempts, waits, cpc,
                   last_call, starts, stops, gave_up>>

\* _run_event_loop, lines 124-126: run_until_complete has returned; the loop
\* is closed, with the coroutines still scheduled on it, and the thread ends.
WorkerExits ==
    /\ thread = "alive"
    /\ wpc = "exiting"
    /\ loop' = "closed"
    /\ thread' = "dead"
    /\ wpc' = "dead"
    /\ disc_pending' = 0
    /\ disc_closing' = 0
    /\ UNCHANGED <<stop_event, websocket, connected, retry_count, send_task,
                   open_ws, ws_count, connect_attempts, waits, cpc,
                   last_call, starts, stops, gave_up>>

\* ---- coroutines scheduled on the loop from the calling thread

\* _disconnect, lines 180-182: with a websocket, self.connected = False and
\* the close begins; without one, nothing.
DisconnectBegins ==
    /\ AtAwait
    /\ disc_pending > 0
    /\ disc_pending' = disc_pending - 1
    /\ IF websocket # 0
       THEN /\ connected' = FALSE
            /\ open_ws' = open_ws \ {websocket}
            /\ disc_closing' = disc_closing + 1
       ELSE UNCHANGED <<connected, open_ws, disc_closing>>
    /\ UNCHANGED <<thread, loop, stop_event, websocket, retry_count, wpc,
                   send_task, ws_count, connect_attempts, waits, cpc,
                   last_call, starts, stops, gave_up>>

\* _disconnect, line 183: the close is over; self.websocket = None
DisconnectEnds ==
    /\ AtAwait
    /\ disc_closing > 0
    /\ disc_closing' = disc_closing - 1
    /\ websocket' = 0
    /\ UNCHANGED <<thread, loop, stop_event, connected, retry_count, wpc,
                   disc_pending, send_task, open_ws, ws_count,
                   connect_attempts, waits, cpc, last_call, starts, stops,
                   gave_up>>

\* _send_message, lines 268-278
SendMessage ==
    /\ AtAwait
    /\ send_task = "pending"
    /\ send_task' = IF ~connected \/ websocket = 0 THEN "refused"
                    ELSE IF websocket \in open_ws THEN "sent"
                    ELSE "refused"
    /\ UNCHANGED <<thread, loop, stop_event, websocket, connected,
                   retry_count, wpc, disc_pending, disc_closing, open_ws,
                   ws_count, connect_attempts, waits, cpc, last_call,
                   starts, stops, gave_up>>

\* ---- the transports, as the exchange sees them

\* What a step of the client puts on the wire: the subscribe message of a
\* _send_message that returns True (line 273), on self.websocket, and what
\* _connect sends on the transport it has opened.
SentInStep ==
    (IF send_task = "pending" /\ send_task' = "sent"
     THEN {websocket} ELSE {})
    \cup
    (IF wpc = "connecting" /\ wpc' = "handler"
     THEN SentOnConnect(ws_count', subscribed) ELSE {})

Wire == subscribed' = subscribed \cup SentInStep

\* ------------------------------------------------------------- DataStream
\* TIMEFRAMES (lines 21-26), its two finest entries
TIMEFRAMES == {"1m", "5m"}

\* The timeframes arguments of load_symbol; None stands for all of them
TimeframeLists == {<<"1m">>, <<"5m">>, <<"1m", "5m">>, <<"2m">>}

\* The symbol arguments of load_symbol: one the catalog has, in lower case,
\* and one it has not
SymbolArgs == {"btc", "DOGE"}

\* str.upper (line 118)
Upper(sym) == IF sym = "btc" THEN "BTC" ELSE sym

\* The raw pair identifiers of live frames: the pair of BTC and another one
WsPairs == {"BTC/USD", "ETH/USD"}

\* The readings of datetime.now() (line 74): the time of the first bar of
\* every answer, or a time after the last bar of every answer
Times == {1, MaxBars + 1}

\* None, where a pair_info is expected
NoPair == [kraken_pair |-> "none", websocket_pair |-> "none"]

\* SymbolManager.find_pair on the loaded catalog: the pair_info, or None
find_pair(sym) ==
    IF sym = "BTC"
    THEN [kraken_pair |-> "XXBTZUSD", websocket_pair |-> "BTC/USD"]
    ELSE NoPair

\* The answers of data_manager.get_ohlc_data for one timeframe: an
\* exception, no data for the pair (line 157), or the bars of the pair, each
\* bar given by its time c[0] in epoch units
Ascending(n) == [i \in 1..n |-> i]
Repeating(n) == [i \in 1..n |-> IF i = 1 THEN 1 ELSE i - 1]
Responses == {Ascending(n) : n \in 0..MaxBars} \cup {Repeating(MaxBars)}
Answers ==
    {[kind |-> "raises", bars |-> <<>>], [kind |-> "none", bars |-> <<>>]}
    \cup {[kind |-> "bars", bars |-> r] : r \in Responses}

\* The history_count arguments of load_symbol
HistoryCounts == {0, 1, MaxHistory}

\* A frame as the stream client hands it to its callback
Frame(ch, hd, pr, num, sub, st, n) ==
    [json |-> TRUE, tag |-> "channel", channel |-> ch, has_data |-> hd,
     pair |-> pr, numeric |-> num, sub |-> sub, status |-> st, seq |-> n]

\* A frame of the ohlc channel with one candle in its data
TickFrame(pr, num, n) == Frame("ohlc", TRUE, pr, num, "none", "none", n)

NoFrame == Frame("none", FALSE, "none", TRUE, "none", "none", 0)

Max(a, b) == IF a >= b THEN a ELSE b

\* candles[-history_count:] (line 161), for history_count >= 0: -0 is 0,
\* the whole list
LastBars(bars, hc) ==
    IF hc = 0 THEN bars
    ELSE SubSeq(bars, Max(1, Len(bars) - hc + 1), Len(bars))

\* DataFrame.tail(n) that keeps the first n rows
HeadRows(rows, n) == SubSeq(rows, 1, Min(n, Len(rows)))

\* DataFrame.tail(n) (line 86): the last n rows
TailRows(rows, n) == SubSeq(rows, Max(1, Len(rows) - n + 1), Len(rows))

\* datetime.fromtimestamp (line 165): the naive local time of an epoch time;
\* in a zone with summer time the unit before dst_end is read twice
FromTimestamp(t) == IF t < dst_end THEN t + 1 ELSE t

\* lines 164-171: one row per bar, in the order of the answer
Rows(bars) ==
    [i \in 1..Len(bars) |-> [timestamp |-> FromTimestamp(bars[i]), tick |-> 0]]

\* The invocations of n registered callbacks, in order
Invoke(n, cb, sym, tf) ==
    [i \in 1..n |-> [cb |-> cb, symbol |-> sym, timeframe |-> tf]]

\* DataStream.__init__, lines 28-43, with SymbolManager.__init__
DataInit(zone) ==
    /\ candles_data = <<>>
    /\ tracked_symbols = <<>>
    /\ max_candles = InitialMaxCandles
    /\ data_callbacks = 0
    /\ error_callbacks = 0
    /\ pairs_cache = "none"
    /\ calls = <<>>
    /\ lpc = "idle"
    /\ l_symbol = "none"
    /\ l_timeframes = <<>>
    /\ history_count = 0
    /\ success_count = 0
    /\ returned = "none"
    /\ loads = 0
    /\ ticks = 0
    /\ dst_end = zone

\* The lengths of the callback lists: no callback or one
CallbackCounts == {0, 1}

\* add_data_callback, lines 45-47
add_data_callback ==
    /\ data_callbacks + 1 \in CallbackCounts
    /\ data_callbacks' = data_callbacks + 1
    /\ calls' = <<>>
    /\ UNCHANGED <<candles_data, tracked_symbols, max_candles,
                   error_callbacks, pairs_cache, lpc, l_symbol,
                   l_timeframes, history_count, success_count, returned,
                   loads, ticks, dst_end>>

\* add_error_callback, lines 49-51
add_error_callback ==
    /\ error_callbacks + 1 \in CallbackCounts
    /\ error_callbacks' = error_callbacks + 1
    /\ calls' = <<>>
    /\ UNCHANGED <<candles_data, tracked_symbols, max_candles,
                   data_callbacks, pairs_cache, lpc, l_symbol, l_timeframes,
                   history_count, success_count, returned, loads, ticks,
                   dst_end>>

\* load_symbol, lines 118-150: the timeframes are validated, the symbol is
\* resolved (the first find_pair fetches the catalog, and its exception
\* leaves load_symbol: line 134 is outside every try), and the loop of line
\* 153 begins.
load_symbol(sym, tfs, hc, catalog_ok) ==
    /\ lpc = "idle"
    /\ loads < MaxLoads
    /\ loads' = loads + 1
    /\ LET valid == SelectSeq(tfs, LAMBDA tf : tf \in TIMEFRAMES)
           fetches == pairs_cache = "none"
       IN IF valid = <<>>
          THEN /\ returned' = "false"
               /\ calls' = <<>>
               /\ UNCHANGED <<pairs_cache, lpc, l_symbol, l_timeframes,
                              history_count, success_count>>
          ELSE IF fetches /\ ~catalog_ok
          THEN /\ returned' = "raised"
               /\ calls' = <<>>
               /\ UNCHANGED <<pairs_cache, lpc, l_symbol, l_timeframes,
                              history_count, success_count>>
          ELSE IF find_pair(Upper(sym)) = NoPair
          THEN /\ pairs_cache' = "loaded"
               /\ returned' = "false"
               /\ calls' = Invoke(error_callbacks, "error", Upper(sym),
                                  "none")
               /\ UNCHANGED <<lpc, l_symbol, l_timeframes, history_count,
                              success_count>>
          ELSE /\ pairs_cache' = "loaded"
               /\ lpc' = "timeframes"
               /\ l_symbol' = Upper(sym)
               /\ l_timeframes' = valid
               /\ history_count' = hc
               /\ success_count' = 0
               /\ calls' = <<>>
               /\ UNCHANGED returned
    /\ UNCHANGED <<candles_data, tracked_symbols, max_candles,
                   data_callbacks, error_callbacks, ticks, dst_end>>

\* lines 153-190, one turn of the loop: the history of the next timeframe is
\* fetched; its last history_count bars become the Timeline and every data
\* callback is invoked with it, or the timeframe is skipped (no data) or
\* reported to the error callbacks (an exception).
LoadTimeframe(ans) ==
    /\ lpc = "timeframes"
    /\ LET tf == Head(l_timeframes)
           key == <<l_symbol, tf>>
           rows == Rows(LastBars(ans.bars, history_count))
       IN CASE ans.kind = "raises" ->
                 /\ calls' = Invoke(error_callbacks, "error", l_symbol, tf)
                 /\ UNCHANGED <<candles_data, success_count>>
            [] ans.kind = "none" ->
                 /\ calls' = <<>>
                 /\ UNCHANGED <<candles_data, success_count>>
            [] ans.kind = "bars" ->
                 /\ candles_data' =
                        [k \in DOMAIN candles_data \cup {key} |->
                            IF k = key THEN rows ELSE candles_data[k]]
                 /\ success_count' = success_count + 1
                 /\ calls' = Invoke(data_callbacks, "data", l_symbol, tf)
    /\ l_timeframes' = Tail(l_timeframes)
    /\ lpc' = IF Tail(l_timeframes) = <<>> THEN "finish" ELSE "timeframes"
    /\ UNCHANGED <<tracked_symbols, max_candles, data_callbacks,
                   error_callbacks, pairs_cache, l_symbol, history_count,
                   returned, loads, ticks, dst_end>>

\* line 192 that takes a call with no loaded timeframe for a success too
NoneNeeded(n) == n >= 0

\* line 192: if success_count > 0
AnySucceeded(n) == n > 0

\* the cap of the last track only: history_count * 2
ResetCap(cap, hc) == hc * 2

\* line 194: max(self._max_candles, history_count * 2)
GrownCap(cap, hc) == Max(cap, hc * 2)

\* lines 192-197: with a loaded timeframe the symbol is tracked and the
\* rolling window grows to 2 * history_count; the call returns and its
\* locals are gone
LoadFinish ==
    /\ lpc = "finish"
    /\ lpc' = "idle"
    /\ calls' = <<>>
    /\ l_symbol' = "none"
    /\ history_count' = 0
    /\ success_count' = 0
    /\ IF AnySucceeded(success_count)
       THEN /\ tracked_symbols' =
                   [s \in DOMAIN tracked_symbols \cup {l_symbol} |->
                       IF s = l_symbol THEN find_pair(l_symbol)
                       ELSE tracked_symbols[s]]
            /\ max_candles' = GrownCap(max_candles, history_count)
            /\ returned' = "true"
       ELSE /\ returned' = "false"
            /\ UNCHANGED <<tracked_symbols, max_candles>>
    /\ UNCHANGED <<candles_data, data_callbacks, error_callbacks,
                   pairs_cache, l_timeframes, loads, ticks, dst_end>>

\* lines 62-65 that fall back on a tracked symbol when no pair matches
FindSymbolOrAny(ws_pair) ==
    IF \E s \in DOMAIN tracked_symbols :
           tracked_symbols[s].websocket_pair = ws_pair
    THEN CHOOSE s \in DOMAIN tracked_symbols :
             tracked_symbols[s].websocket_pair = ws_pair
    ELSE IF DOMAIN tracked_symbols # {}
    THEN CHOOSE s \in DOMAIN tracked_symbols : TRUE
    ELSE "none"

\* lines 59-65 that also find the symbol a running load_symbol is loading
FindSymbolOrLoading(ws_pair) ==
    IF \E s \in DOMAIN tracked_symbols :
           tracked_symbols[s].websocket_pair = ws_pair
    THEN CHOOSE s \in DOMAIN tracked_symbols :
             tracked_symbols[s].websocket_pair = ws_pair
    ELSE IF lpc # "idle" /\ find_pair(l_symbol).websocket_pair = ws_pair
    THEN l_symbol
    ELSE "none"

\* lines 59-65: the tracked symbol whose websocket_pair is the frame's pair,
\* or None
FindSymbol(ws_pair) ==
    IF \E s \in DOMAIN tracked_symbols :
           tracked_symbols[s].websocket_pair = ws_pair
    THEN CHOOSE s \in DOMAIN tracked_symbols :
             tracked_symbols[s].websocket_pair = ws_pair
    ELSE "none"

\* _process_live_candle, lines 72-104: a row stamped datetime.now() is
\* appended to the 1m Timeline of the symbol, which keeps its last
\* max_candles rows (or the row becomes the Timeline), and every data
\* callback is invoked; a field that float() rejects sends the exception to
\* the error callbacks instead.
process_live_candle(sym, f, now) ==
    LET key == <<sym, "1m">>
        new_row == [timestamp |-> now, tick |-> f.seq]
        rows == IF key \in DOMAIN candles_data
                THEN TailRows(Append(candles_data[key], new_row), max_candles)
                ELSE <<new_row>>
    IN IF f.numeric
       THEN /\ candles_data' =
                   [k \in DOMAIN candles_data \cup {key} |->
                       IF k = key THEN rows ELSE candles_data[k]]
            /\ calls' = Invoke(data_callbacks, "data", sym, "1m")
       ELSE /\ calls' = Invoke(error_callbacks, "error", sym, "none")
            /\ UNCHANGED candles_data

\* _websocket_callback, lines 55-68: only a frame of the ohlc channel with
\* data is looked at; its first candle goes to _process_live_candle when a
\* tracked symbol has its pair.
websocket_callback(f, now) ==
    /\ ticks' = ticks + 1
    /\ IF f.channel = "ohlc" /\ f.has_data /\ FindSymbol(f.pair) # "none"
       THEN process_live_candle(FindSymbol(f.pair), f, now)
       ELSE /\ calls' = <<>>
            /\ UNCHANGED candles_data
    /\ UNCHANGED <<tracked_symbols, max_candles, data_callbacks,
                   error_callbacks, pairs_cache, lpc, l_symbol, l_timeframes,
                   history_count, success_count, returned, loads, dst_end>>

\* The frames the stream client hands to the callback, numbered n
CallbackFrames(n) ==
    {TickFrame(pr, TRUE, n) : pr \in WsPairs}
    \cup {TickFrame("BTC/USD", FALSE, n),
          Frame("ticker", TRUE, "BTC/USD", TRUE, "none", "none", n)}

\* The stream client's worker thread calls self.callback(channel, data)
\* (websocket_client.py, line 220) with the next frame
LiveFrame(f, now) ==
    /\ ticks < MaxTicks
    /\ f.seq = ticks + 1
    /\ websocket_callback(f, now)

\* The same call, with the frame kept as the one being processed
DeliverFrame(f, now) ==
    /\ LiveFrame(f, now)
    /\ cur' = f
    /\ UNCHANGED <<inbox, arrived, read_no, dpc, cb_done, h_done,
                   subscription_status>>

\* ------------------- DataStream: the worker thread, a caller and a reader
\* The stores of line 86 when the appended frame is stored before it is
\* trimmed
AppendThenTrim(old, row, cap) ==
    <<Append(old, row), TailRows(Append(old, row), cap)>>

\* line 86: pl.concat([...]).tail(self._max_candles) is evaluated to a new
\* DataFrame, and one subscript assignment stores it
StoreSteps(old, row, cap) == <<TailRows(Append(old, row), cap)>>

\* None, where get_latest_candle returns no candle
NoCandle == [timestamp |-> -1, tick |-> 0]

\* No tick in flight, no read made
RaceInit ==
    /\ t_pc = "idle"
    /\ t_key = <<"none", "none">>
    /\ t_pending = <<>>
    /\ complete = {}
    /\ r_pc = "idle"
    /\ r_seen = {}
    /\ r_latest = NoCandle

\* The Timelines as they are now, each with its key
Stored == {<<k, candles_data[k]>> : k \in DOMAIN candles_data}

\* lines 55-86 on the worker thread, up to the store: the frame's symbol is
\* looked up; for a tracked one the row is built, the Timeline under
\* (symbol, '1m') is read and the new one is computed from it
TickBuild(f, now) ==
    /\ t_pc = "idle"
    /\ ticks < MaxTicks
    /\ f.seq = ticks + 1
    /\ ticks' = ticks + 1
    /\ calls' = <<>>
    /\ LET sym == FindSymbol(f.pair)
           key == <<sym, "1m">>
           new_row == [timestamp |-> now, tick |-> f.seq]
       IN IF f.channel = "ohlc" /\ f.has_data /\ sym # "none"
          THEN /\ t_pc' = "store"
               /\ t_key' = key
               /\ t_pending' =
                      IF key \in DOMAIN candles_data
                      THEN StoreSteps(candles_data[key], new_row, max_candles)
                      ELSE <<<<new_row>>>>
               /\ complete' =
                      complete \cup Stored \cup
                      {<<key, IF key \in DOMAIN candles_data
                              THEN TailRows(Append(candles_data[key], new_row),
                                            max_candles)
                              ELSE <<new_row>>>>}
          ELSE UNCHANGED <<t_pc, t_key, t_pending, complete>>
    /\ UNCHANGED <<candles_data, tracked_symbols, max_candles,
                   data_callbacks, error_callbacks, pairs_cache, lpc,
                   l_symbol, l_timeframes, history_count, success_count,
                   returned, loads, dst_end>>
    /\ UNCHANGED <<r_pc, r_seen, r_latest>>

\* lines 86-95: the subscript assignment; after it the data callbacks are
\* invoked with the Timeline
TickStore ==
    /\ t_pc = "store"
    /\ candles_data' =
           [k \in DOMAIN candles_data \cup {t_key} |->
               IF k = t_key THEN Head(t_pending) ELSE candles_data[k]]
    /\ t_pending' = Tail(t_pending)
    /\ IF Tail(t_pending) = <<>>
       THEN /\ t_pc' = "idle"
            /\ t_key' = <<"none", "none">>
            /\ calls' = Invoke(data_callbacks, "data", t_key[1], "1m")
       ELSE /\ calls' = <<>>
            /\ UNCHANGED <<t_pc, t_key>>
    /\ UNCHANGED <<tracked_symbols, max_candles, data_callbacks,
                   error_callbacks, pairs_cache, lpc, l_symbol,
                   l_timeframes, history_count, success_count, returned,
                   loads, ticks, dst_end>>
    /\ UNCHANGED <<complete, r_pc, r_seen, r_latest>>

\* A step of load_symbol on the caller's thread: under the key it stores,
\* the DataFrame of lines 164-171 is the Timeline after the write
CallerStep ==
    /\ complete' =
           complete \cup Stored \cup
           {<<k, candles_data'[k]>> : k \in DOMAIN candles_data'}
    /\ UNCHANGED <<t_pc, t_key, t_pending, r_pc, r_seen, r_latest>>

\* get_data, lines 235-238: the DataFrame under the key, or None
get_data(sym, tf) ==
    /\ r_pc = "idle"
    /\ r_seen' = {c \in Stored : c[1] = <<Upper(sym), tf>>}
    /\ r_latest' = NoCandle
    /\ UNCHANGED <<t_pc, t_key, t_pending, complete, r_pc>>
    /\ UNCHANGED data_vars

\* get_latest_candle, lines 240-253: the last row of the DataFrame get_data
\* returned, or None
get_latest_candle(sym, tf) ==
    /\ r_pc = "idle"
    /\ LET key == <<Upper(sym), tf>>
       IN /\ r_seen' = {c \in Stored : c[1] = key}
          /\ r_latest' =
                 IF key \in DOMAIN candles_data /\ Len(candles_data[key]) > 0
                 THEN TailRows(candles_data[key], 1)[1]
                 ELSE NoCandle
    /\ UNCHANGED <<t_pc, t_key, t_pending, complete, r_pc>>
    /\ UNCHANGED data_vars

\* get_all_data, lines 255-263: one turn of the loop per step, over the keys
\* of TIMEFRAMES in the order of the dict; a call begins with an empty
\* result at the first timeframe
get_all_data(sym) ==
    /\ LET tf == IF r_pc = "idle" THEN "1m" ELSE r_pc
           sofar == IF r_pc = "idle" THEN {} ELSE r_seen
       IN /\ r_seen' = sofar \cup {c \in Stored : c[1] = <<Upper(sym), tf>>}
          /\ r_pc' = IF tf = "1m" THEN "5m" ELSE "idle"
    /\ r_latest' = NoCandle
    /\ UNCHANGED <<t_pc, t_key, t_pending, complete>>
    /\ UNCHANGED data_vars

\* The other components, for the steps of the three threads
RaceOnly ==
    UNCHANGED <<signer_vars, fetch_vars, stream_vars, wire_vars,
                dispatch_vars, resolver_vars, trade_vars,
                close_vars, failed>>

\* ------------------------- KrakenWebSocketClient: the dispatch of messages
\* The status strings of subscriptionStatus frames
Statuses == {"pending", "subscribed", "error", "unsubscribed"}

\* A subscriptionStatus frame about the ohlc channel
StatusFrame(st, n) ==
    Frame("subscriptionStatus", TRUE, "none", TRUE, "ohlc", st, n)

\* The acknowledgement of a subscribe request: tagged by method, no channel
AckFrame(n) ==
    [json |-> TRUE, tag |-> "method", channel |-> "none", has_data |-> FALSE,
     pair |-> "none", numeric |-> TRUE, sub |-> "none", status |-> "none",
     seq |-> n]

\* A frame that json.loads rejects
InvalidJson(n) ==
    [json |-> FALSE, tag |-> "none", channel |-> "none", has_data |-> FALSE,
     pair |-> "none", numeric |-> TRUE, sub |-> "none", status |-> "none",
     seq |-> n]

\* The frames the exchange sends, numbered n
InboundFrames(n) ==
    {TickFrame(pr, TRUE, n) : pr \in WsPairs}
    \cup {StatusFrame(st, n) : st \in Statuses}
    \cup {AckFrame(n), InvalidJson(n)}

\* KrakenWebSocketClient.__init__, lines 74-76, and the connection's buffer
DispatchInit ==
    /\ inbox = <<>>
    /\ arrived = 0
    /\ read_no = 0
    /\ dpc = "iterate"
    /\ cur = NoFrame
    /\ cb_done = 0
    /\ h_done = 0
    /\ subscription_status = <<>>
    /\ failed = {}

\* The exchange sends a frame on the open transport
FrameArrives(f) ==
    /\ ws_count \in open_ws
    /\ arrived < MaxFrames
    /\ Len(inbox) < MaxInbox
    /\ f.seq = arrived + 1
    /\ arrived' = arrived + 1
    /\ inbox' = Append(inbox, f)
    /\ UNCHANGED <<read_no, dpc, cur, cb_done, h_done, subscription_status>>

\* An iteration that goes on while the internal handler of the message
\* before is still to run (the handler started as a task of its own)
MayReadEarly(pc) == pc \in {"iterate", "handler"}

\* lines 189, 195: the iteration takes the next message only when
\* _process_message has returned
MayRead(pc) == pc = "iterate"

\* lines 189-216 and 229-236: the next message is read; with the stop event
\* set the iteration breaks; invalid JSON is logged; a message with a
\* channel goes to the callback; an acknowledgement or an untagged message
\* is logged.
ReadMessage ==
    /\ MayRead(dpc)
    /\ inbox # <<>>
    /\ MessageArrives
    /\ inbox' = Tail(inbox)
    /\ read_no' = read_no + 1
    /\ LET m == Head(inbox)
       IN IF stop_event
          THEN UNCHANGED <<dpc, cur, cb_done, h_done>>
          ELSE /\ cur' = m
               /\ IF m.json /\ m.tag = "channel"
                  THEN /\ dpc' = "callback"
                       /\ UNCHANGED <<cb_done, h_done>>
                  ELSE /\ dpc' = "iterate"
                       /\ cb_done' = m.seq
                       /\ h_done' = m.seq
    /\ UNCHANGED <<arrived, subscription_status>>

\* lines 218-222: self.callback(channel, data), DataStream's
\* _websocket_callback; an exception it raises is logged
RunCallback(now) ==
    /\ thread = "alive"
    /\ wpc = "handler"
    /\ dpc = "callback"
    /\ websocket_callback(cur, now)
    /\ cb_done' = cur.seq
    /\ dpc' = "handler"
    /\ UNCHANGED <<inbox, arrived, read_no, cur, h_done, subscription_status>>

\* lines 225-226 and 247-253: the handler of the channel, if it has one;
\* _handle_subscription_status records the status of the frame's channel
RunHandler ==
    /\ thread = "alive"
    /\ wpc = "handler"
    /\ dpc = "handler"
    /\ subscription_status' =
           IF cur.channel = "subscriptionStatus"
           THEN [c \in DOMAIN subscription_status \cup {cur.sub} |->
                    IF c = cur.sub THEN cur.status
                    ELSE subscription_status[c]]
           ELSE subscription_status
    /\ h_done' = cur.seq
    /\ dpc' = "iterate"
    /\ UNCHANGED <<inbox, arrived, read_no, cur, cb_done>>

\* lines 218-222: self.callback(channel, data) raises; the exception is
\* logged and _process_message goes on to the handler of the channel
RunCallbackRaises ==
    /\ thread = "alive"
    /\ wpc = "handler"
    /\ dpc = "callback"
    /\ cb_done' = cur.seq
    /\ dpc' = "handler"
    /\ failed' = failed \cup {cur.seq}
    /\ UNCHANGED stream_vars
    /\ UNCHANGED <<inbox, arrived, read_no, cur, h_done, subscription_status>>

\* the exception of a handler taken by the outer clause of line 204:
\* self.connected = False and the iteration is over
RunHandlerRaisesEndsIteration ==
    /\ thread = "alive"
    /\ wpc = "handler"
    /\ dpc = "handler"
    /\ h_done' = cur.seq
    /\ dpc' = "iterate"
    /\ failed' = failed \cup {cur.seq}
    /\ connected' = FALSE
    /\ AfterHandler(FALSE)
    /\ UNCHANGED <<thread, loop, stop_event, websocket, disc_pending,
                   disc_closing, send_task, open_ws, ws_count,
                   connect_attempts, waits, cpc, last_call, starts, stops,
                   gave_up>>
    /\ UNCHANGED <<inbox, arrived, read_no, cur, cb_done, subscription_status>>

\* lines 225-226, 195 and 198-199: the handler of the channel raises (the
\* data field of a frame is a list, which has no get); the exception leaves
\* _process_message, is logged by the clause of line 198 inside the
\* iteration, and the iteration takes the next message
RunHandlerRaises ==
    /\ thread = "alive"
    /\ wpc = "handler"
    /\ dpc = "handler"
    /\ h_done' = cur.seq
    /\ dpc' = "iterate"
    /\ failed' = failed \cup {cur.seq}
    /\ UNCHANGED stream_vars
    /\ UNCHANGED <<inbox, arrived, read_no, cur, cb_done, subscription_status>>

\* lines 193-197: the message read is not JSON; the warning is logged
ReadLogged ==
    /\ ReadMessage
    /\ failed' = IF ~stop_event /\ ~Head(inbox).json
                 THEN failed \cup {Head(inbox).seq}
                 ELSE failed

\* ------------------------------------- SymbolManager under several callers
\* Strings that the code takes apart are sequences of characters
XBT == <<"X", "B", "T">>
BTC == <<"B", "T", "C">>
ETH == <<"E", "T", "H">>
ZUSD == <<"Z", "U", "S", "D">>
USD == <<"U", "S", "D">>
EUR == <<"E", "U", "R">>
GBP == <<"G", "B", "P">>

\* str.upper on the characters in use
UpperStr(s) ==
    [i \in 1..Len(s) |->
        IF s[i] = "b" THEN "B" ELSE IF s[i] = "t" THEN "T"
        ELSE IF s[i] = "c" THEN "C" ELSE s[i]]

\* str.replace(old, new), from the left
RECURSIVE Replace(_, _, _)
Replace(s, old, new) ==
    IF Len(s) < Len(old) THEN s
    ELSE IF SubSeq(s, 1, Len(old)) = old
    THEN new \o Replace(SubSeq(s, Len(old) + 1, Len(s)), old, new)
    ELSE <<Head(s)>> \o Replace(Tail(s), old, new)

\* What data_manager.get_tradeable_pairs returns, in the order of the dict:
\* the pairs of ETH and of BTC against USD
Catalog ==
    <<[pair_name |-> "XETHZUSD", base |-> <<"X", "E", "T", "H">>,
       quote |-> ZUSD,
       wsname |-> ETH \o <<"/">> \o USD],
      [pair_name |-> "XXBTZUSD", base |-> <<"X", "X", "B", "T">>,
       quote |-> ZUSD,
       wsname |-> XBT \o <<"/">> \o USD]>>

\* lines 25-32: the user symbol of a base asset
UserSymbol(base) ==
    IF base \in {<<"X", "X", "B", "T">>, XBT} THEN BTC
    ELSE IF Len(base) > 1 /\ Head(base) \in {"X", "Z"} THEN Tail(base)
    ELSE base

\* lines 35-42: the quote symbol of a quote asset
QuoteSymbol(quote) ==
    IF quote = ZUSD THEN USD
    ELSE IF quote = <<"Z", "E", "U", "R">> THEN EUR
    ELSE IF quote = <<"Z", "G", "B", "P">> THEN GBP
    ELSE quote

\* line 44: the key of an entry of the catalog
PairKey(e) == <<UserSymbol(UpperStr(e.base)), QuoteSymbol(UpperStr(e.quote))>>

\* lines 47-54: the pair_info of an entry of the catalog
PairInfo(e) ==
    [kraken_pair |-> e.pair_name,
     websocket_pair |->
         IF e.wsname # <<>>
         THEN Replace(e.wsname, XBT \o <<"/">>, BTC \o <<"/">>)
         ELSE <<>>,
     base |-> UserSymbol(UpperStr(e.base)),
     quote |-> QuoteSymbol(UpperStr(e.quote)),
     kraken_base |-> UpperStr(e.base),
     kraken_quote |-> UpperStr(e.quote)]

\* None, where find_pair returns no pair_info
NotFound ==
    [kraken_pair |-> "none", websocket_pair |-> <<>>, base |-> <<>>,
     quote |-> <<>>, kraken_base |-> <<>>, kraken_quote |-> <<>>]

\* lines 46-54: one turn of the loop of _build_symbol_map on a map
AddEntry(map, e) ==
    IF PairKey(e) \in DOMAIN map THEN map
    ELSE [k \in DOMAIN map \cup {PairKey(e)} |->
             IF k = PairKey(e) THEN PairInfo(e) ELSE map[k]]

\* lines 19-54: the map after the whole loop over the entries
RECURSIVE BuildSymbolMap(_, _)
BuildSymbolMap(map, entries) ==
    IF entries = <<>> THEN map
    ELSE BuildSymbolMap(AddEntry(map, Head(entries)), Tail(entries))

\* lines 58-72 with the alternative quotes tried in another order
LookUpEurFirst(map, user_symbol, quote) ==
    LET sym == UpperStr(user_symbol)
        tries == <<UpperStr(quote), EUR, <<"U", "S", "D", "T">>, GBP,
                   <<"U", "S", "D", "C">>>>
        hits == SelectSeq(tries, LAMBDA q : <<sym, q>> \in DOMAIN map)
    IN IF hits = <<>> THEN NotFound ELSE map[<<sym, hits[1]>>]

\* lines 58-72 on a map: the exact key first, then the alternative quotes
\* in their order, else None
LookUp(map, user_symbol, quote) ==
    LET sym == UpperStr(user_symbol)
        tries == <<UpperStr(quote), <<"U", "S", "D", "T">>, EUR, GBP,
                   <<"U", "S", "D", "C">>>>
        hits == SelectSeq(tries, LAMBDA q : <<sym, q>> \in DOMAIN map)
    IN IF hits = <<>> THEN NotFound ELSE map[<<sym, hits[1]>>]

\* The symbols callers resolve
SymbolNames == {<<"b", "t", "c">>, ETH, <<"D", "O", "G", "E">>}

\* The quotes callers prefer
Quotes == {USD, EUR, GBP}

\* A catalog with pairs against other quotes than USD only
OtherQuotes ==
    <<[pair_name |-> "XXBTZEUR", base |-> <<"X", "X", "B", "T">>,
       quote |-> <<"Z", "E", "U", "R">>, wsname |-> XBT \o <<"/">> \o EUR],
      [pair_name |-> "XBTUSDT", base |-> XBT,
       quote |-> <<"U", "S", "D", "T">>,
       wsname |-> XBT \o <<"/", "U", "S", "D", "T">>],
      [pair_name |-> "ETHUSDC", base |-> ETH,
       quote |-> <<"U", "S", "D", "C">>,
       wsname |-> ETH \o <<"/", "U", "S", "D", "C">>],
      [pair_name |-> "XETHZGBP", base |-> <<"X", "E", "T", "H">>,
       quote |-> <<"Z", "G", "B", "P">>, wsname |-> ETH \o <<"/">> \o GBP]>>

\* The answers of data_manager.get_tradeable_pairs: the empty catalog too
Catalogs == {Catalog, OtherQuotes, <<>>}

\* SymbolManager.__init__, lines 4-7, and no caller inside it
ResolverInit ==
    /\ symbol_map = <<>>
    /\ catalog_fetches = 0
    /\ find_pc = [t \in Threads |-> "idle"]
    /\ build_todo = [t \in Threads |-> <<>>]
    /\ find_op = [t \in Threads |-> "none"]
    /\ find_arg = [t \in Threads |-> <<>>]
    /\ find_quote = [t \in Threads |-> <<>>]
    /\ listed = [t \in Threads |-> {}]
    /\ found = [t \in Threads |-> NotFound]

\* line 10 that fetches the catalog on every call
AlwaysLoads(cache) == cache = cache

\* line 10: if self.pairs_cache is None
NeedsLoad(cache) == cache = "none"

\* find_pair (lines 56-57) or list_all_pairs (lines 96-97) is called by a
\* caller that is in no call: it enters _load_pairs and tests
\* self.pairs_cache (lines 9-10)
FindBegin(t, op, sym, quote) ==
    /\ find_pc[t] \in {"idle", "done", "raised"}
    /\ find_op' = [find_op EXCEPT ![t] = op]
    /\ find_arg' = [find_arg EXCEPT ![t] = sym]
    /\ find_quote' = [find_quote EXCEPT ![t] = quote]
    /\ find_pc' = [find_pc EXCEPT
                      ![t] = IF NeedsLoad(pairs_cache) THEN "fetch"
                             ELSE "lookup"]
    /\ UNCHANGED <<symbol_map, catalog_fetches, build_todo, listed, found,
                   pairs_cache>>

\* line 11: get_tradeable_pairs has returned the catalog and it is
\* assigned to self.pairs_cache; lines 12 and 16-17: _build_symbol_map
\* returns at once on an empty catalog
FetchCatalog(t, cat) ==
    /\ find_pc[t] = "fetch"
    /\ catalog_fetches' = catalog_fetches + 1
    /\ pairs_cache' = "loaded"
    /\ build_todo' = [build_todo EXCEPT ![t] = cat]
    /\ find_pc' = [find_pc EXCEPT
                      ![t] = IF cat = <<>> THEN "lookup" ELSE "build"]
    /\ UNCHANGED <<symbol_map, find_op, find_arg, find_quote, listed, found>>

\* line 11 when the failed fetch is memoized like an empty catalog
FetchFailsMemoized(t) ==
    /\ find_pc[t] = "fetch"
    /\ catalog_fetches < MaxCatalogFetches
    /\ catalog_fetches' = catalog_fetches + 1
    /\ pairs_cache' = "loaded"
    /\ find_pc' = [find_pc EXCEPT ![t] = "raised"]
    /\ UNCHANGED <<symbol_map, build_todo, find_op, find_arg, find_quote,
                   listed, found>>

\* line 11: get_tradeable_pairs raises (rest_client.get_asset_pairs logs and
\* re-raises); nothing is assigned and the exception leaves the call
FetchFails(t) ==
    /\ find_pc[t] = "fetch"
    /\ catalog_fetches < MaxCatalogFetches
    /\ catalog_fetches' = catalog_fetches + 1
    /\ find_pc' = [find_pc EXCEPT ![t] = "raised"]
    /\ UNCHANGED <<symbol_map, build_todo, find_op, find_arg, find_quote,
                   listed, found, pairs_cache>>

\* lines 12 and 19-54: one turn of the loop of _build_symbol_map
BuildEntry(t) ==
    /\ find_pc[t] = "build"
    /\ symbol_map' = AddEntry(symbol_map, Head(build_todo[t]))
    /\ build_todo' = [build_todo EXCEPT ![t] = Tail(build_todo[t])]
    /\ find_pc' = [find_pc EXCEPT
                      ![t] = IF Tail(build_todo[t]) = <<>> THEN "lookup"
                             ELSE "build"]
    /\ UNCHANGED <<catalog_fetches, find_op, find_arg, find_quote, listed,
                   found, pairs_cache>>

\* lines 58-72: the lookup in self.symbol_map, and the return; line 98:
\* the keys of self.symbol_map, and the return
FindReturn(t) ==
    /\ find_pc[t] = "lookup"
    /\ IF find_op[t] = "find_pair"
       THEN /\ found' = [found EXCEPT
                            ![t] = LookUp(symbol_map, find_arg[t],
                                          find_quote[t])]
            /\ UNCHANGED listed
       ELSE /\ listed' = [listed EXCEPT ![t] = DOMAIN symbol_map]
            /\ UNCHANGED found
    /\ find_pc' = [find_pc EXCEPT ![t] = "done"]
    /\ UNCHANGED <<symbol_map, catalog_fetches, build_todo, find_op, find_arg,
                   find_quote, pairs_cache>>

\* The other components, for the steps of the callers of SymbolManager
ResolverOnly ==
    /\ UNCHANGED <<signer_vars, fetch_vars, stream_vars, wire_vars,
                   dispatch_vars, race_vars, trade_vars, close_vars, failed>>
    /\ UNCHANGED <<candles_data, tracked_symbols, max_candles,
                   data_callbacks, error_callbacks, calls, lpc, l_symbol,
                   l_timeframes, history_count, success_count, returned,
                   loads, ticks, dst_end>>

\* ------------------------------------------------ KrakenTrader._make_request
\* KrakenTrader.__init__, lines 109-130: no request made
TradeInit ==
    /\ trade_pc = "idle"
    /\ trade_attempt = 0
    /\ trade_nonce = <<>>
    /\ trade_sign = <<>>
    /\ sent = <<>>

\* _create_signature (auth.py, lines 105-140): the HMAC of the path and of
\* the nonce and the encoded data is a function of them; the other fields
\* of data are the same at every call of the model
Signature(url_path, nonce_str) == <<url_path, nonce_str>>

\* str() of a nonce
Str(n) == <<"str", n>>

\* lines 146-149: data["nonce"] is set to the millisecond clock, whatever
\* the caller had put there, and self.auth.sign_request(endpoint, data) is
\* entered
MakeTradeRequest(t, c) ==
    /\ trade_pc \in {"idle", "returned", "raised"}
    /\ sign_request(t, "/0/private/Balance")
    /\ trade_pc' = "signing"
    /\ trade_nonce' = Str(c)
    /\ trade_sign' = <<>>
    /\ trade_attempt' = 0
    /\ sent' = <<>>

\* lines 149-150 with a sign_request that leaves data["nonce"] as it found
\* it
SignedKeepsNonce(t) ==
    /\ trade_pc = "signing"
    /\ sign_pc[t] = "L102"
    /\ StoreNonce(t)
    /\ trade_sign' = Signature("/0/private/Balance", trade_nonce)
    /\ trade_pc' = "attempt"
    /\ UNCHANGED <<trade_attempt, trade_nonce, sent>>

\* auth.py lines 66-79 and trade.py lines 149-150: _generate_nonce returns,
\* data["nonce"] is set to its nonce, the signature of the data is computed
\* and the headers of the request are built
Signed(t) ==
    /\ trade_pc = "signing"
    /\ sign_pc[t] = "L102"
    /\ StoreNonce(t)
    /\ trade_nonce' = Str(nonce[t])
    /\ trade_sign' = Signature("/0/private/Balance", Str(nonce[t]))
    /\ trade_pc' = "attempt"
    /\ UNCHANGED <<trade_attempt, sent>>

\* lines 154-196, one turn of the loop: the request is posted with the
\* headers and the data built before the loop; a response that is accepted
\* returns, a requests.RequestException is retried after a sleep until
\* attempt = max_retries, any other failure raises
TradeAttempt(o) ==
    /\ trade_pc = "attempt"
    /\ sent' = Append(sent, [nonce |-> trade_nonce, sign |-> trade_sign])
    /\ IF Classify(o) = "retry"
       THEN IF LastAttempt(trade_attempt, DefaultMaxRetries)
            THEN /\ trade_pc' = "raised"
                 /\ UNCHANGED trade_attempt
            ELSE /\ trade_attempt' = trade_attempt + 1
                 /\ UNCHANGED trade_pc
       ELSE /\ trade_pc' = IF Classify(o) = "return" THEN "returned"
                           ELSE "raised"
            /\ UNCHANGED trade_attempt
    /\ UNCHANGED <<trade_nonce, trade_sign>>

\* ------------------------------------------------------- DataStream.close
\* The session of KrakenRESTClient.__init__ is open; close was not called
CloseInit ==
    /\ closing = "none"
    /\ session_open = TRUE

\* DataStream.close, lines 283-287, into DataIngestionManager.close, lines
\* 225-228, into stop_websocket (line 175) and KrakenWebSocketClient.stop up
\* to line 107: the stop event is set
close_begin ==
    /\ closing # "running"
    /\ StopSetEvent
    /\ closing' = "running"
    /\ UNCHANGED session_open

\* stop has returned or raised: DataIngestionManager.close clears the cache
\* of REST answers (line 229; the cache holds no state of this model) and
\* returns to DataStream.close, which returns; an exception of stop (line
\* 109 on a closed loop) leaves both. Neither calls
\* KrakenRESTClient.close.
close_end ==
    /\ closing = "running"
    /\ cpc = "idle"
    /\ closing' = IF last_call = "raised" THEN "raised" ELSE "returned"
    /\ UNCHANGED session_open

\* KrakenRESTClient.close, lines 331-335, called by the application itself
rest_close ==
    /\ session_open
    /\ session_open' = FALSE
    /\ UNCHANGED closing

\* ----------------------------------------------------------------- claims
StrictlyIncreasing(q) == \A i \in 1..(Len(q) - 1) : q[i] < q[i + 1]
NonDecreasing(q) == \A i \in 1..(Len(q) - 1) : q[i] <= q[i + 1]
NoDuplicates(q) == \A i, j \in 1..Len(q) : i # j => q[i] # q[j]

\* C1 (SpecSignSeq): when the sign calls on one signer run one after another,
\* each returned nonce is strictly greater than the one returned before it,
\* whatever the clock reads (equal or decreasing readings included).
C1_SequentialNoncesIncrease == StrictlyIncreasing(issued)

\* C1 witness: a nonce beyond every clock reading was returned, so a reading
\* not above the last nonce was replaced by last nonce + 1.
C1_Witness == Len(issued) >= 2 /\ issued[Len(issued)] > MaxClock

\* C2 (SpecSignConc): with concurrent sign calls no two calls obtain the same
\* nonce and the last-nonce counter never moves backwards.
C2_ConcurrentNoncesUnique ==
    [][last_nonce' >= last_nonce /\ NoDuplicates(issued')]_vars

\* C3 (SpecFetch): against a transport that fails on the first fail_first
\* attempts and then succeeds, a finished call has made exactly
\* min(fail_first, max_retries) + 1 attempts, has returned when
\* fail_first <= max_retries and has raised otherwise, with no sleep after
\* the last attempt; an unfinished call has made no more attempts than that.
C3_AttemptsUntilSuccess ==
    (then_body = "result" /\ fetch_pc # "idle") =>
        /\ Len(outcomes) <= Min(fail_first, max_retries) + 1
        /\ fetch_pc \in {"returned", "raised"} =>
              /\ Len(outcomes) = Min(fail_first, max_retries) + 1
              /\ Len(sleeps) = Min(fail_first, max_retries)
              /\ (fail_first <= max_retries) = (fetch_pc = "returned")
              /\ (fail_first > max_retries) =
                    (fetch_pc = "raised" /\ fetch_error = "network")

\* C3 witness: max_retries = 3 and a transport that always fails: the call
\* has raised after 4 attempts.
C3_Witness ==
    /\ max_retries = 3
    /\ fail_first > 3
    /\ then_body = "result"
    /\ fetch_pc = "raised"
    /\ Len(outcomes) = 4

\* An outcome that is a response with one of the three bodies of C4
BadBody(o) == ~o.exc /\ o.body \in {"not_json", "error_list", "no_result"}

\* The call ended with an error on attempt i: no attempt and no sleep after it
EndsCallAt(i) ==
    /\ i = Len(outcomes)
    /\ fetch_pc = "raised"
    /\ Len(sleeps) = i - 1

\* C4 as stated (SpecFetch): every response with a non-empty error list,
\* without the result envelope or with a body that is not JSON ends the call
\* with an error on that same attempt.
C4_BadBodyEndsCall ==
    fetch_pc # "idle" =>
        \A i \in 1..Len(outcomes) : BadBody(outcomes[i]) => EndsCallAt(i)

\* C4 as amended (SpecFetch): such a response ends the call on that same
\* attempt when its HTTP status is one raise_for_status accepts.
C4_AcceptedBadBodyEndsCall ==
    fetch_pc # "idle" =>
        \A i \in 1..Len(outcomes) :
            (BadBody(outcomes[i]) /\ outcomes[i].status_ok) => EndsCallAt(i)

\* C4 witness: after a failed attempt, with retries left, a 200 response
\* with an error list has ended the call.
C4_Witness ==
    /\ fetch_pc = "raised"
    /\ Len(outcomes) = 2
    /\ max_retries = 3
    /\ outcomes[2] = Response(TRUE, "error_list")

\* The worker has left _connect_with_retry after max_retries failed attempts
GaveUp == wpc \in {"exiting", "dead"} /\ retry_count >= 5

\* C5 (SpecStream): a run of failing connect attempts has at most 5 attempts,
\* its waits are non-decreasing and at most 30 seconds, and after the 5th
\* failure the worker has given up, having made exactly 5 attempts and slept
\* between them only.
C5_FiveAttemptsThenGiveUp ==
    /\ connect_attempts <= 5
    /\ NonDecreasing(waits)
    /\ \A i \in 1..Len(waits) : waits[i] <= 30
    /\ (retry_count >= 5 /\ wpc # "boot") => GaveUp
    /\ GaveUp => connect_attempts = 5 /\ Len(waits) = 4

\* C5 witness: the worker thread has ended after giving up, with no stop.
C5_Witness == GaveUp /\ thread = "dead" /\ ~stop_event

\* A connect attempt begins in this step
AttemptBegins == wpc # "connecting" /\ wpc' = "connecting"

\* C6 as stated (SpecStream): once the worker has given up, no later
\* operation (start, subscribe, unsubscribe_all, stop) leads to another
\* connect attempt.
C6_NoAttemptAfterGaveUp == [][gave_up => ~AttemptBegins]_vars

\* C6 as amended (SpecStream): in the gave-up state no connect attempt
\* begins, and only a call of start leaves it: stop, subscribe,
\* unsubscribe_all and the worker's own steps keep it.
C6_OnlyStartLeavesGaveUp ==
    [][GaveUp => /\ ~AttemptBegins
                 /\ GaveUp' \/ starts' = starts + 1]_vars

\* C6 witness: in the gave-up state, with the worker thread ended, a call of
\* unsubscribe_all or subscribe has raised on the closed loop.
C6_Witness == GaveUp /\ thread = "dead" /\ last_call = "raised"

C8_StopClosesTransport ==
    (stop_event /\ cpc = "idle" /\ last_call = "ok" /\ thread = "dead") =>
        (~connected /\ open_ws = {})

\* The calling thread's positions inside stop
StopPcs == {"stop_L108", "stop_L109", "stop_L111"}

\* C9 (SpecStream): no step of a second (or later) stop call, with no start
\* between it and the stop before it, raises, and none changes the
\* connection state.
C9_SecondStopIsQuiet ==
    [][(stops' >= 2 /\ cpc' # cpc /\ (cpc \in StopPcs \/ cpc' \in StopPcs)) =>
          /\ ~(cpc = "stop_L109" /\ last_call' = "raised")
          /\ connected' = connected
          /\ websocket' = websocket
          /\ open_ws' = open_ws]_vars

\* C10 (SpecStream), its first half as an invariant: when the connection
\* has ended (the handler has returned, the transport is closed) and no stop
\* was requested, the connection state has left Connected.
C10_LostConnectionNotConnected ==
    (~stop_event /\ wpc = "keepalive" /\ ws_count \notin open_ws) => ~connected

\* The ticks of the live rows of a Timeline, in the order of its rows
LiveTicks(rows) ==
    LET live == SelectSeq(rows, LAMBDA r : r.tick # 0)
    IN [i \in 1..Len(live) |-> live[i].tick]

\* Every Timeline holds its live ticks in the order the frames arrived
TicksInArrivalOrder ==
    \A k \in DOMAIN candles_data : StrictlyIncreasing(LiveTicks(candles_data[k]))

\* C11 (SpecDispatch): the messages of a connection are read in arrival
\* order and one at a time: when message n+1 is read, the callback and the
\* internal handler of message n have returned; so every Timeline holds its
\* live ticks in the order they were received.
C11_OneMessageAtATimeInOrder ==
    /\ []TicksInArrivalOrder
    /\ [][read_no' = read_no + 1 =>
             /\ Head(inbox).seq = read_no + 1
             /\ cb_done = read_no
             /\ h_done = read_no]_vars

\* C11 witness: two ticks of BTC were read, each went through the callback
\* and the handler, and the Timeline ends with them in that order.
C11_Witness ==
    /\ read_no = 2
    /\ cb_done = 2
    /\ h_done = 2
    /\ <<"BTC", "1m">> \in DOMAIN candles_data
    /\ LiveTicks(candles_data[<<"BTC", "1m">>]) = <<1, 2>>

\* The rank of a recorded status along Pending -> Active -> {Errored, Closed}
StatusRank(st) ==
    CASE st = "pending" -> 0
      [] st = "subscribed" -> 1
      [] OTHER -> 2

\* A recorded status is kept, or replaced by one further along
MovesForward(old, new) == old = new \/ StatusRank(old) < StatusRank(new)

\* C14 (SpecDispatch): the recorded status of every channel only moves
\* forward along Pending -> Active -> {Errored, Closed}: no step takes it back
\* to Pending, or from Errored or Closed to Active, or drops it.
C14_StatusOnlyMovesForward ==
    [][\A c \in DOMAIN subscription_status :
           /\ c \in DOMAIN subscription_status'
           /\ MovesForward(subscription_status[c], subscription_status'[c])]_vars

\* _connect_with_retry gives up in this step (line 152)
GivesUp == ~gave_up /\ gave_up'

\* C15 (SpecGiveUp): when the reconnect bound is exceeded, the registered
\* error callback is invoked to report the gave-up state.
C15_GiveUpReportsToErrorCallback ==
    [][(GivesUp /\ error_callbacks > 0) =>
           \E i \in 1..Len(calls') : calls'[i].cb = "error"]_vars

\* A call on the calling thread schedules a coroutine on the loop in this
\* step: _send_message (subscribe_*) or _disconnect (unsubscribe_all; stop
\* schedules its own from line 109, not from "idle")
SubscribeQueued == send_task # "pending" /\ send_task' = "pending"
UnsubscribeQueued == cpc = "idle" /\ disc_pending' = disc_pending + 1

\* C12 (SpecSubscribe): a subscribe or unsubscribe call made while
\* self.connected is false fails and queues nothing: no coroutine is
\* scheduled on the loop for it, so nothing can be sent or take effect after
\* a later connect.
C12_NothingQueuedWhenNotConnected ==
    [][~connected => ~SubscribeQueued /\ ~UnsubscribeQueued]_vars

\* C13 (SpecSubscribe): a subscribe message goes out on a transport only as
\* the _send_message of a caller's subscribe call; connecting and
\* reconnecting send none, so a new connection carries no subscription of
\* an earlier one.
C13_NoResubscribeOnReconnect ==
    [][subscribed' # subscribed =>
          /\ send_task = "pending" /\ send_task' = "sent"
          /\ subscribed' = subscribed \cup {websocket}]_vars

\* C13 witness: the first connection carried a subscription and was lost;
\* the worker has reconnected and the new connection carries none.
C13_Witness ==
    /\ 1 \in subscribed
    /\ 1 \notin open_ws
    /\ ws_count = 2
    /\ wpc = "handler"
    /\ 2 \in open_ws
    /\ 2 \notin subscribed
    /\ ~stop_event

\* The timestamps of a Timeline, in the order of its rows
Timestamps(rows) == [i \in 1..Len(rows) |-> rows[i].timestamp]

\* C16 (SpecTimeline): in every reachable state, the states between the
\* turns of load_symbol's loop included, every Timeline has at most
\* _max_candles rows.
C16_TimelineWithinCap ==
    \A k \in DOMAIN candles_data : Len(candles_data[k]) <= max_candles

\* C17 (SpecTimeline): in every reachable state the timestamps of every
\* Timeline are strictly ascending, so no timestamp occurs twice.
C17_TimestampsStrictlyAscending ==
    \A k \in DOMAIN candles_data :
        StrictlyIncreasing(Timestamps(candles_data[k]))

\* C18 (SpecTimeline): the Timeline that load_symbol builds from an answer of
\* the history source has at most history_count rows, and they are the last
\* history_count bars of the answer when it has more.
C18_BackfillKeepsLastBars ==
    [][\A ans \in Answers :
           (ans.kind = "bars" /\ LoadTimeframe(ans)) =>
               LET built == candles_data'[<<l_symbol, Head(l_timeframes)>>]
                   extra == Len(ans.bars) - history_count
               IN /\ Len(built) <= history_count
                  /\ extra > 0 =>
                         Timestamps(built) =
                             [i \in 1..history_count |->
                                 FromTimestamp(ans.bars[extra + i])]]_vars

\* The frame is a tick of the pair of the tracked symbol sym, with fields
\* that float() accepts
TickOf(f, sym) ==
    /\ f.channel = "ohlc"
    /\ f.has_data
    /\ f.numeric
    /\ sym \in DOMAIN tracked_symbols
    /\ tracked_symbols[sym].websocket_pair = f.pair

\* The rows of the Timeline of a key, none when there is no Timeline
TimelineOf(data, key) == IF key \in DOMAIN data THEN data[key] ELSE <<>>

\* C19 (SpecLive): a live tick of a tracked symbol takes its 1m Timeline
\* from n rows to min(n + 1, _max_candles) rows: the last row is the new
\* candle, the rows before it are the newest rows the Timeline had, in their
\* order, and no other Timeline changes.
C19_TickAppendsAndTrims ==
    [][\A f \in CallbackFrames(ticks + 1), now \in Times,
          sym \in DOMAIN tracked_symbols :
           (LiveFrame(f, now) /\ TickOf(f, sym)) =>
               LET key == <<sym, "1m">>
                   old == TimelineOf(candles_data, key)
                   new == TimelineOf(candles_data', key)
                   kept == Len(new) - 1
               IN /\ Len(new) = Min(Len(old) + 1, max_candles)
                  /\ new[Len(new)] = [timestamp |-> now, tick |-> f.seq]
                  /\ \A i \in 1..kept : new[i] = old[Len(old) - kept + i]
                  /\ \A k \in DOMAIN candles_data \ {key} :
                         TimelineOf(candles_data', k) = candles_data[k]]_vars

\* C19 witness: the 1m Timeline of BTC was backfilled with one bar, the cap
\* is 2, and two ticks have been delivered: the Timeline holds the two ticks
\* and the bar is gone.
C19_Witness ==
    /\ "BTC" \in DOMAIN tracked_symbols
    /\ max_candles = 2
    /\ ticks = 2
    /\ <<"BTC", "1m">> \in DOMAIN candles_data
    /\ Len(candles_data[<<"BTC", "1m">>]) = 2
    /\ candles_data[<<"BTC", "1m">>][1].tick = 1
    /\ candles_data[<<"BTC", "1m">>][2].tick = 2

\* The frame just handed to the callback is a tick whose pair no tracked
\* symbol had
UntrackedTickDelivered ==
    /\ ticks' = ticks + 1
    /\ cur'.channel = "ohlc"
    /\ cur'.has_data
    /\ \A s \in DOMAIN tracked_symbols :
           tracked_symbols[s].websocket_pair # cur'.pair

\* C20 (SpecLive): a tick whose pair matches no tracked symbol is dropped: no
\* data callback and no error callback is invoked, and the Timelines, the
\* tracked symbols and _max_candles stay as they are.
C20_UntrackedTickDropped ==
    [][UntrackedTickDelivered =>
           /\ calls' = <<>>
           /\ UNCHANGED <<candles_data, tracked_symbols, max_candles>>]_vars

\* C20 witness: with BTC tracked and both kinds of callback registered, the
\* first tick went into the Timeline of BTC and the second, of ETH/USD, has
\* just been dropped.
C20_Witness ==
    /\ "BTC" \in DOMAIN tracked_symbols
    /\ data_callbacks = 1
    /\ error_callbacks = 1
    /\ ticks = 2
    /\ cur = TickFrame("ETH/USD", TRUE, 2)
    /\ calls = <<>>
    /\ LiveTicks(TimelineOf(candles_data, <<"BTC", "1m">>)) = <<1>>

\* A load_symbol call with these arguments has no valid timeframe, or a
\* symbol the available catalog does not have
CannotBegin(sym, tfs, catalog_ok) ==
    \/ \A i \in 1..Len(tfs) : tfs[i] \notin TIMEFRAMES
    \/ /\ pairs_cache = "loaded" \/ catalog_ok
       /\ find_pair(Upper(sym)) = NoPair

C22_TrackNeverRaises == returned # "raised"

\* C23 (SpecTrack): when the backfill of a timeframe fails, by an exception
\* of the fetch or an answer with no bars for the pair, every registered
\* error callback is invoked with the symbol, and the loop goes on to the
\* timeframes that remain.
C23_FailedTimeframeReportedAndSkipped ==
    [][\A ans \in Answers :
           (LoadTimeframe(ans) /\ ans.kind # "bars") =>
               /\ calls' = Invoke(error_callbacks, "error", l_symbol,
                                  Head(l_timeframes))
               /\ l_timeframes' = Tail(l_timeframes)
               /\ Tail(l_timeframes) # <<>> => lpc' = "timeframes"]_vars

\* A step of load_symbol's loop that stores the Timeline of key k
BackfillStores(k) ==
    /\ lpc = "timeframes"
    /\ k = <<l_symbol, Head(l_timeframes)>>
    /\ success_count' = success_count + 1

\* C27 (SpecLive): a Timeline comes to exist for a key only by a successful
\* backfill of that key; no other step, a live tick included, creates one.
C27_TimelineOnlyFromBackfill ==
    [][\A k \in DOMAIN candles_data' \ DOMAIN candles_data :
           BackfillStores(k)]_vars

\* The finest timeframe at which the symbol has a Timeline
FinestTracked(sym) ==
    IF <<sym, "1m">> \in DOMAIN candles_data THEN "1m" ELSE "5m"

\* C28 (SpecLive): a live tick of a tracked symbol changes only the Timeline
\* of the finest timeframe tracked for that symbol; every other Timeline, of
\* a coarser timeframe or of another symbol, stays as it was and none is
\* created.
C28_TickChangesOnlyFinestTimeline ==
    [][\A sym \in DOMAIN tracked_symbols :
           (ticks' = ticks + 1 /\ TickOf(cur', sym)) =>
               \A k \in (DOMAIN candles_data \cup DOMAIN candles_data')
                        \ {<<sym, FinestTracked(sym)>>} :
                   /\ k \in DOMAIN candles_data
                   /\ k \in DOMAIN candles_data'
                   /\ candles_data'[k] = candles_data[k]]_vars

\* No Timeline of a symbol that is not tracked holds a live tick
NoTickBeforeTracked ==
    \A k \in DOMAIN candles_data :
        k[1] \notin DOMAIN tracked_symbols =>
            LiveTicks(candles_data[k]) = <<>>

LiveRows(rows) == {rows[i] : i \in {j \in 1..Len(rows) : rows[j].tick # 0}}

\* A step of the worker thread of the stream
WorkerStep == ticks' # ticks \/ t_pc' # t_pc \/ t_pending' # t_pending

\* C25 (SpecRace): the Timelines are written by one context only, so a step
\* that is not the stream's own never removes a row a live tick appended:
\* a track of an already tracked symbol, running while the stream delivers
\* ticks, leaves every such row in its Timeline.
C25_TickNeverOverwritten ==
    [][~WorkerStep =>
          \A k \in DOMAIN candles_data :
              LiveRows(candles_data[k]) \subseteq LiveRows(candles_data'[k])]_vars

\* C26 (SpecRace): what get_data, get_latest_candle and get_all_data return
\* for a key is a Timeline as it was before or after a write (a tick's
\* append and trim, or a backfill), and the latest candle is the last row
\* of such a Timeline.
C26_ReadersSeeCompleteTimelines ==
    /\ r_seen \subseteq complete
    /\ r_latest # NoCandle =>
          \E c \in r_seen : c[2] # <<>> /\ r_latest = c[2][Len(c[2])]

\* C26 witness: while a tick's new Timeline is built and not yet stored, a
\* reader got the Timeline of the same key, and the tick's Timeline differs
\* from it by an append and a trim.
C26_Witness ==
    /\ t_pc = "store"
    /\ \E c \in r_seen :
          /\ c[1] = t_key
          /\ c[2] = candles_data[t_key]
          /\ Len(c[2]) = max_candles
          /\ Len(Head(t_pending)) = max_candles
          /\ Head(t_pending) # c[2]
    /\ r_latest # NoCandle

\* C29 (SpecResolve): callers that make their first find_pair concurrently
\* on a SymbolManager with no catalog cause one catalog fetch in total.
C29_OneCatalogFetch == catalog_fetches <= 1

\* The symbol map built from the whole catalog
CompleteMap == BuildSymbolMap(<<>>, Catalog)

\* C30 (SpecResolve): a find_pair that has returned has answered from the
\* complete symbol map, so it has found every symbol that has a pair in the
\* catalog.
C30_AnswersFromCompleteMap ==
    \A t \in Threads :
        find_pc[t] = "done" =>
            found[t] = LookUp(CompleteMap, find_arg[t], find_quote[t])

\* The first load of the catalog is over: the catalog is memoized and no
\* caller is fetching it or building the map
Loaded ==
    /\ pairs_cache = "loaded"
    /\ \A t \in Threads : find_pc[t] \notin {"fetch", "build"}

\* C31 (SpecLookup): once the first call has loaded the catalog, no step of
\* a later find_pair (validate_symbol is find_pair) or list_all_pairs
\* fetches the catalog or changes the map or the memoized catalog, and the
\* call answers from that map.
C31_LaterCallsUseMemoizedMap ==
    [][Loaded =>
          /\ Loaded'
          /\ catalog_fetches' = catalog_fetches
          /\ symbol_map' = symbol_map
          /\ \A t \in Threads :
                (find_pc[t] = "lookup" /\ find_pc'[t] = "done") =>
                    IF find_op[t] = "find_pair"
                    THEN found'[t] =
                             LookUp(symbol_map, find_arg[t], find_quote[t])
                    ELSE listed'[t] = DOMAIN symbol_map]_vars

\* C31 witness: after the one fetch, a find_pair has found its pair and a
\* list_all_pairs has returned the keys of the map, one of them a later
\* call.
C31_Witness ==
    /\ catalog_fetches = 1
    /\ symbol_map # <<>>
    /\ \E t \in Threads :
          /\ find_pc[t] = "done"
          /\ found[t] # NotFound
          /\ listed[t] = DOMAIN symbol_map

\* The quotes find_pair tries, in their order
TriedQuotes(quote) ==
    <<quote, <<"U", "S", "D", "T">>, EUR, GBP, <<"U", "S", "D", "C">>>>

\* C32 (SpecLookup): find_pair(symbol, quote) returns the mapping under the
\* first key symbol/Q of the map, for Q in the order quote, USDT, EUR, GBP,
\* USDC, and None exactly when no such key is in the map; the base of the
\* mapping is the requested symbol, and a pair whose base asset is XXBT or
\* XBT is in the map under BTC.
C32_ResolveFirstPresentKey ==
    /\ \A k \in DOMAIN symbol_map :
          /\ symbol_map[k].base = k[1]
          /\ symbol_map[k].kraken_base \in {<<"X", "X", "B", "T">>, XBT} =>
                k[1] = BTC
    /\ \A t \in Threads :
          (find_pc[t] = "done" /\ find_op[t] = "find_pair") =>
              LET sym == UpperStr(find_arg[t])
                  tries == TriedQuotes(find_quote[t])
                  present == {i \in 1..5 : <<sym, tries[i]>> \in DOMAIN symbol_map}
              IN /\ (found[t] = NotFound) = (present = {})
                 /\ present # {} =>
                       \E i \in present :
                           /\ \A j \in present : i <= j
                           /\ found[t] = symbol_map[<<sym, tries[i]>>]
                           /\ found[t].base = sym

\* C32 witness: find_pair("btc") with USD preferred, on a catalog that has
\* Bitcoin against EUR (first in the catalog) and USDT only, has returned
\* the USDT pair of the legacy base XBT, with base BTC.
C32_Witness ==
    \E t \in Threads :
        /\ find_pc[t] = "done"
        /\ find_arg[t] = <<"b", "t", "c">>
        /\ find_quote[t] = USD
        /\ found[t].kraken_pair = "XBTUSDT"
        /\ found[t].base = BTC
        /\ <<BTC, EUR>> \in DOMAIN symbol_map

\* C40 (SpecLookup): while no catalog is memoized the map is empty and a
\* call fetches; a fetch that fails memoizes nothing; once a fetch has
\* succeeded, with an empty catalog too, no call fetches again.
C40_FailedFetchNotMemoized ==
    /\ [](pairs_cache = "none" => symbol_map = <<>>)
    /\ [][\A t \in Threads :
             /\ (find_pc[t] = "fetch" /\ find_pc'[t] = "raised") =>
                   pairs_cache' = "none"
             /\ (find_pc[t] \notin {"fetch", "build", "lookup"}
                 /\ find_pc'[t] \in {"fetch", "lookup"}) =>
                   (find_pc'[t] = "fetch") = (pairs_cache = "none")
             /\ (find_pc[t] = "fetch" /\ find_pc'[t] \in {"build", "lookup"}) =>
                   pairs_cache' = "loaded"]_vars

\* C40 witness: the first fetch failed, the call after it fetched again and
\* got an empty catalog, which is memoized, and the call has returned.
C40_Witness ==
    /\ catalog_fetches = 2
    /\ pairs_cache = "loaded"
    /\ symbol_map = <<>>
    /\ \E t \in Threads : find_pc[t] = "done"

\* C33 (SpecSigners): over all the signers of one process, whenever each
\* was created, every nonce returned is greater than every nonce returned
\* before it.
C33_NoncesIncreaseAcrossSigners ==
    \A i, j \in 1..Len(issued) : i < j => issued[i] < issued[j]

\* C35 (SpecSignSeq): a sign_request that raises on an empty url_path
\* consumes no nonce: the last nonce, the nonces returned (each is written
\* to the params of its call at line 67) and every call's local nonce are
\* as before.
C35_EmptyPathChangesNothing ==
    [][\A t \in Threads :
          (~sign_error[t] /\ sign_error'[t]) =>
              /\ last_nonce' = last_nonce
              /\ issued' = issued
              /\ nonce' = nonce
              /\ sign_pc' = sign_pc]_vars

\* C35 witness: after a nonce was returned, a call with an empty path has
\* raised, and the last nonce is still the one returned.
C35_Witness ==
    /\ issued # <<>>
    /\ last_nonce = issued[Len(issued)]
    /\ \E t \in Threads : sign_error[t] /\ sign_pc[t] = "idle"

\* C38 (SpecTrade): every post of one call carries the nonce and the
\* signature of its first post; that nonce is the one sign_request
\* produced for the call (not the one placed in the data before), the
\* signature is the one of that nonce, and no turn of the retry loop signs
\* again.
C38_SignedOnceBeforeRetries ==
    /\ [](\A i \in 1..Len(sent) :
             /\ sent[i] = sent[1]
             /\ sent[i].nonce = Str(issued[Len(issued)])
             /\ sent[i].sign = Signature("/0/private/Balance", sent[i].nonce))
    /\ [][Len(sent') > Len(sent) =>
             /\ issued' = issued
             /\ last_nonce' = last_nonce]_vars

\* C38 witness: the second call of the trader has failed on every attempt:
\* four posts were made.
C38_Witness ==
    /\ trade_pc = "raised"
    /\ Len(sent) = DefaultMaxRetries + 1
    /\ Len(issued) = 2

\* C36: the reconnect counter counts the connect attempts that failed in a
\* row: outside a connection it equals the number of attempts begun since
\* the last success that have failed, and as many backoff waits were slept;
\* so once a connection has ended the counter is 0 and the next attempt
\* begins with no backoff wait behind it, and the attempts of a client's
\* life are not bounded by the limit.
C36_CounterCountsConsecutiveFailures ==
    /\ wpc \in {"loop_head", "keepalive", "backoff"} =>
         /\ retry_count = connect_attempts
         /\ Len(waits) = connect_attempts
    /\ wpc = "connecting" =>
         /\ retry_count = connect_attempts - 1
         /\ Len(waits) = retry_count
    /\ (wpc = "connecting" /\ connect_attempts = 1) =>
         (retry_count = 0 /\ waits = <<>>)

\* two connections were made and lost, and four more attempts have failed
\* since: more attempts than the limit, and the client still retries
C36_Witness ==
    /\ ws_count = MaxConnects
    /\ wpc = "backoff"
    /\ retry_count = MaxReconnect - 1
    /\ ~gave_up

\* C37: a failure while one inbound message is handled (a frame that is not
\* JSON, an exception of the callback, an exception of the handler of the
\* channel) is contained: the step that logs it leaves the connection
\* connected, the transport open and the iteration running, and the
\* messages are still taken in the order of their arrival, each after the
\* one before it has been through the callback and the handler.
InOrder ==
    /\ inbox # <<>> => Head(inbox).seq = read_no + 1
    /\ \A i \in 1..Len(inbox) - 1 : inbox[i + 1].seq = inbox[i].seq + 1
    /\ h_done <= cb_done /\ cb_done <= read_no
    /\ (dpc = "iterate" /\ ~stop_event) =>
           (cb_done = read_no /\ h_done = read_no)
    /\ \A n \in failed : n <= read_no

FailureStep ==
    /\ failed' # failed
    /\ failed \subseteq failed'

C37_MessageFailureContained ==
    /\ []InOrder
    /\ [][FailureStep =>
            /\ connected /\ connected'
            /\ wpc = "handler" /\ wpc' = "handler"
            /\ thread' = thread /\ open_ws' = open_ws
            /\ websocket' = websocket /\ retry_count' = retry_count
            /\ arrived' = arrived
            /\ dpc' \in {"handler", "iterate"}]_vars

\* a message failed, and a later message with a channel has been through
\* the callback and the handler on the same connection
C37_Witness ==
    /\ \E n \in failed : n < cur.seq
    /\ cur.seq \notin failed
    /\ cur.json /\ cur.tag = "channel"
    /\ h_done = cur.seq
    /\ connected /\ wpc = "handler" /\ ws_count = 1

\* C34: once close() of DataStream has returned, the stream loop has been
\* told to stop and the HTTP session of the REST client is closed.
C34_CloseStopsStreamAndClosesSession ==
    closing = "returned" => (stop_event /\ ~session_open)

\* C39: the rolling cap never decreases and is one value for all symbols
\* and timeframes: the end of a successful track sets it to the larger of
\* its value and twice the history count asked for, and no other step (a
\* failed track, a live tick, a read, close) changes it.
SuccessfulTrackEnds == lpc = "finish" /\ lpc' = "idle" /\ success_count > 0

C39_CapOnlyGrows ==
    [][/\ max_candles' >= max_candles
       /\ SuccessfulTrackEnds =>
              /\ max_candles' >= history_count * 2
              /\ max_candles' \in {max_candles, history_count * 2}
       /\ ~SuccessfulTrackEnds => max_candles' = max_candles]_vars

\* a track asking for one bar of history has succeeded on a stream whose
\* cap was twice MaxHistory, and the cap is still that
C39_Witness ==
    /\ loads = 1 /\ lpc = "idle" /\ returned = "true"
    /\ <<"BTC", "5m">> \in DOMAIN candles_data
    /\ max_candles = MaxHistory * 2
    /\ MaxHistory * 2 > 2

\* -------------------------------------------------------- specifications
WireInit == subscribed = {}

Init ==
    /\ SignerInit
    /\ FetchInit(DefaultMaxRetries)
    /\ StreamInit
    /\ WireInit
    /\ DataInit(0)
    /\ DispatchInit
    /\ RaceInit
    /\ ResolverInit
    /\ TradeInit
    /\ CloseInit

\* The fetcher constructed with any max_retries of 0..MaxRetries
InitFetch ==
    /\ SignerInit
    /\ \E mr \in 0..MaxRetries : FetchInit(mr)
    /\ StreamInit
    /\ WireInit
    /\ DataInit(0)
    /\ DispatchInit
    /\ RaceInit
    /\ ResolverInit
    /\ TradeInit
    /\ CloseInit

\* What a step of one component leaves alone
SignerOnly ==
    UNCHANGED <<fetch_vars, stream_vars, wire_vars, data_vars, dispatch_vars,
                race_vars, resolver_vars, trade_vars,
                close_vars, failed>>
FetchOnly ==
    UNCHANGED <<signer_vars, stream_vars, wire_vars, data_vars, dispatch_vars,
                race_vars, resolver_vars, trade_vars,
                close_vars, failed>>
StreamOnly ==
    UNCHANGED <<signer_vars, fetch_vars, wire_vars, data_vars, dispatch_vars,
                race_vars, resolver_vars, trade_vars,
                close_vars, failed>>
StreamAndWire ==
    /\ Wire
    /\ UNCHANGED <<signer_vars, fetch_vars, data_vars, dispatch_vars,
                   race_vars, resolver_vars, trade_vars,
                close_vars, failed>>
DataOnly ==
    UNCHANGED <<signer_vars, fetch_vars, stream_vars, wire_vars,
                dispatch_vars, race_vars, resolver_vars, trade_vars,
                close_vars, failed>>
DataAndDispatch ==
    UNCHANGED <<signer_vars, fetch_vars, stream_vars, wire_vars, race_vars,
                resolver_vars, trade_vars,
                close_vars, failed>>
DispatchOnly ==
    UNCHANGED <<signer_vars, fetch_vars, stream_vars, wire_vars, data_vars,
                race_vars, resolver_vars, trade_vars,
                close_vars, failed>>
StreamAndDispatch ==
    UNCHANGED <<signer_vars, fetch_vars, wire_vars, data_vars, race_vars,
                resolver_vars, trade_vars,
                close_vars, failed>>

\* The signer, its calls made one after another
NextSignSeq ==
    \/ \E t \in Threads, p \in Paths : SignSequential(t, p) /\ SignerOnly
    \/ \E t \in Threads, c \in Clock : ReadClock(t, c) /\ SignerOnly
    \/ \E t \in Threads : CompareNonce(t) /\ SignerOnly
    \/ \E t \in Threads : BumpNonce(t) /\ SignerOnly
    \/ \E t \in Threads : StoreNonce(t) /\ SignerOnly

SpecSignSeq == Init /\ [][NextSignSeq]_vars

\* The signer, called from several threads
NextSignConc ==
    \/ \E t \in Threads, p \in Paths : SignConcurrent(t, p) /\ SignerOnly
    \/ \E t \in Threads, c \in Clock : ReadClock(t, c) /\ SignerOnly
    \/ \E t \in Threads : CompareNonce(t) /\ SignerOnly
    \/ \E t \in Threads : BumpNonce(t) /\ SignerOnly
    \/ \E t \in Threads : StoreNonce(t) /\ SignerOnly

SpecSignConc == Init /\ [][NextSignConc]_vars

\* The fetcher
Outcomes == FailedOutcomes \cup {Response(TRUE, b) : b \in Bodies}

NextFetch ==
    \/ \E k \in 0..MaxFail, b \in Bodies : MakeRequest(k, b) /\ FetchOnly
    \/ \E o \in Outcomes : Attempt(o) /\ FetchOnly
    \/ Backoff /\ FetchOnly
    \/ FetchDone /\ FetchOnly

SpecFetch == InitFetch /\ [][NextFetch]_vars

\* The stream connection: one calling thread and the worker thread
NextStream ==
    \/ start /\ StreamOnly
    \/ StopSetEvent /\ StreamOnly
    \/ StopCheckLoop /\ StreamOnly
    \/ StopSchedule /\ StreamOnly
    \/ StopJoin /\ StreamOnly
    \/ subscribe /\ StreamOnly
    \/ SubscribeResult /\ StreamOnly
    \/ unsubscribe_all /\ StreamOnly
    \/ RunEventLoop /\ StreamOnly
    \/ BeginConnect /\ StreamOnly
    \/ LeaveLoop /\ StreamOnly
    \/ ConnectSucceeds /\ StreamOnly
    \/ ConnectFails /\ StreamOnly
    \/ BackoffOver /\ StreamOnly
    \/ MessageArrives /\ StreamOnly
    \/ RemoteClosesNormally /\ StreamOnly
    \/ TransportFails /\ StreamOnly
    \/ HandlerSeesClose /\ StreamOnly
    \/ KeepAliveOver /\ StreamOnly
    \/ WorkerExits /\ StreamOnly
    \/ DisconnectBegins /\ StreamOnly
    \/ DisconnectEnds /\ StreamOnly
    \/ SendMessage /\ StreamOnly

SpecStream == Init /\ [][NextStream]_vars

\* The stream connection without stop calls, and the messages it puts on
\* its transports
NextSubscribe ==
    \/ start /\ StreamAndWire
    \/ subscribe /\ StreamAndWire
    \/ SubscribeResult /\ StreamAndWire
    \/ unsubscribe_all /\ StreamAndWire
    \/ RunEventLoop /\ StreamAndWire
    \/ BeginConnect /\ StreamAndWire
    \/ ConnectSucceeds /\ StreamAndWire
    \/ ConnectFails /\ StreamAndWire
    \/ BackoffOver /\ StreamAndWire
    \/ MessageArrives /\ StreamAndWire
    \/ RemoteClosesNormally /\ StreamAndWire
    \/ TransportFails /\ StreamAndWire
    \/ HandlerSeesClose /\ StreamAndWire
    \/ KeepAliveOver /\ StreamAndWire
    \/ WorkerExits /\ StreamAndWire
    \/ DisconnectBegins /\ StreamAndWire
    \/ DisconnectEnds /\ StreamAndWire
    \/ SendMessage /\ StreamAndWire

SpecSubscribe == Init /\ [][NextSubscribe]_vars

\* The worker thread of a started client whose connects may fail, and the
\* error callbacks registered with the DataStream that owns the client
NextGiveUp ==
    \/ add_error_callback /\ DataOnly
    \/ start /\ StreamOnly
    \/ RunEventLoop /\ StreamOnly
    \/ BeginConnect /\ StreamOnly
    \/ ConnectSucceeds /\ StreamOnly
    \/ ConnectFails /\ StreamOnly
    \/ BackoffOver /\ StreamOnly
    \/ TransportFails /\ StreamOnly
    \/ WorkerExits /\ StreamOnly

SpecGiveUp == Init /\ [][NextGiveUp]_vars

\* DataStream: the calls of load_symbol, with any arguments and any answers
\* of the catalog and of the history source
NextTrack ==
    \/ add_data_callback /\ DataOnly
    \/ add_error_callback /\ DataOnly
    \/ \E sym \in SymbolArgs, tfs \in TimeframeLists, hc \in HistoryCounts,
          ok \in BOOLEAN : load_symbol(sym, tfs, hc, ok) /\ DataOnly
    \/ \E ans \in Answers : LoadTimeframe(ans) /\ DataOnly
    \/ LoadFinish /\ DataOnly

SpecTrack == Init /\ [][NextTrack]_vars

\* load_symbol of BTC at 1m and 5m on the calling thread while the stream
\* client's thread delivers frames
NextFirstTrack ==
    \/ add_data_callback /\ DataOnly
    \/ \E hc \in HistoryCounts :
          load_symbol("btc", <<"1m", "5m">>, hc, TRUE) /\ DataOnly
    \/ \E ans \in Answers : LoadTimeframe(ans) /\ DataOnly
    \/ LoadFinish /\ DataOnly
    \/ \E pr \in WsPairs, now \in Times :
          DeliverFrame(TickFrame(pr, TRUE, ticks + 1), now) /\ DataAndDispatch

SpecFirstTrack == Init /\ [][NextFirstTrack]_vars

\* DataStream after track("btc", ["1m"], history_count) has returned true on
\* a history of MaxBars bars (lines 161-171 and 192-195), with the worker
\* thread of the stream running, a caller that tracks again and a reader
InitRace ==
    /\ SignerInit
    /\ FetchInit(DefaultMaxRetries)
    /\ StreamInit
    /\ WireInit
    /\ DispatchInit
    /\ ResolverInit
    /\ TradeInit
    /\ CloseInit
    /\ dst_end = 0
    /\ \E hc \in HistoryCounts :
          /\ candles_data =
                 (<<"BTC", "1m">> :> Rows(LastBars(Ascending(MaxBars), hc)))
          /\ max_candles = Max(InitialMaxCandles, hc * 2)
    /\ tracked_symbols = ("BTC" :> find_pair("BTC"))
    /\ data_callbacks = 0
    /\ error_callbacks = 0
    /\ pairs_cache = "loaded"
    /\ calls = <<>>
    /\ lpc = "idle"
    /\ l_symbol = "none"
    /\ l_timeframes = <<>>
    /\ history_count = 0
    /\ success_count = 0
    /\ returned = "true"
    /\ loads = 0
    /\ ticks = 0
    /\ t_pc = "idle"
    /\ t_key = <<"none", "none">>
    /\ t_pending = <<>>
    /\ complete = Stored
    /\ r_pc = "idle"
    /\ r_seen = {}
    /\ r_latest = NoCandle

NextRace ==
    \/ \E pr \in WsPairs :
          TickBuild(TickFrame(pr, TRUE, ticks + 1), MaxBars + 1) /\ RaceOnly
    \/ TickStore /\ RaceOnly
    \/ \E hc \in HistoryCounts :
          load_symbol("btc", <<"1m", "5m">>, hc, TRUE) /\ CallerStep /\ RaceOnly
    \/ LoadTimeframe([kind |-> "bars", bars |-> Ascending(MaxBars)])
          /\ CallerStep /\ RaceOnly
    \/ LoadFinish /\ CallerStep /\ RaceOnly
    \/ \E tf \in TIMEFRAMES : get_data("btc", tf) /\ RaceOnly
    \/ \E tf \in TIMEFRAMES : get_latest_candle("btc", tf) /\ RaceOnly
    \/ get_all_data("btc") /\ RaceOnly

SpecRace == InitRace /\ [][NextRace]_vars

\* SymbolManager shared by NumThreads callers, each resolving a symbol
NextResolve ==
    \/ \E t \in Threads, sym \in SymbolNames :
          FindBegin(t, "find_pair", sym, USD) /\ ResolverOnly
    \/ \E t \in Threads : FetchCatalog(t, Catalog) /\ ResolverOnly
    \/ \E t \in Threads : BuildEntry(t) /\ ResolverOnly
    \/ \E t \in Threads : FindReturn(t) /\ ResolverOnly

SpecResolve == Init /\ [][NextResolve]_vars

\* SymbolManager with its calls made one after another by one caller, on a
\* source of catalogs that may fail
NextLookup ==
    \/ \E sym \in SymbolNames, q \in Quotes :
          FindBegin(1, "find_pair", sym, q) /\ ResolverOnly
    \/ FindBegin(1, "list_all_pairs", <<>>, <<>>) /\ ResolverOnly
    \/ \E cat \in Catalogs : FetchCatalog(1, cat) /\ ResolverOnly
    \/ FetchFails(1) /\ ResolverOnly
    \/ BuildEntry(1) /\ ResolverOnly
    \/ FindReturn(1) /\ ResolverOnly

SpecLookup == Init /\ [][NextLookup]_vars

\* Signers created one after another in one process, each called in turn
NextSigners ==
    \/ \E t \in Threads : SignSequential(t, "/0/private/Balance") /\ SignerOnly
    \/ \E t \in Threads, c \in Clock : ReadClock(t, c) /\ SignerOnly
    \/ \E t \in Threads : CompareNonce(t) /\ SignerOnly
    \/ \E t \in Threads : BumpNonce(t) /\ SignerOnly
    \/ \E t \in Threads : StoreNonce(t) /\ SignerOnly
    \/ NewSigner /\ SignerOnly

SpecSigners == Init /\ [][NextSigners]_vars

\* KrakenTrader: authenticated requests made one after another by one
\* thread, on a transport that may fail at every attempt
NextTrade ==
    \/ \E c \in Clock :
          /\ MakeTradeRequest(1, c)
          /\ UNCHANGED <<fetch_vars, stream_vars, wire_vars, data_vars,
                         dispatch_vars, race_vars, resolver_vars, close_vars, failed>>
    \/ \E c \in Clock : ReadClock(1, c) /\ SignerOnly
    \/ CompareNonce(1) /\ SignerOnly
    \/ BumpNonce(1) /\ SignerOnly
    \/ /\ Signed(1)
       /\ UNCHANGED <<fetch_vars, stream_vars, wire_vars, data_vars,
                      dispatch_vars, race_vars, resolver_vars, close_vars, failed>>
    \/ \E o \in Outcomes :
          /\ TradeAttempt(o)
          /\ UNCHANGED <<signer_vars, fetch_vars, stream_vars, wire_vars,
                         data_vars, dispatch_vars, race_vars, resolver_vars,
                         close_vars, failed>>

SpecTrade == Init /\ [][NextTrade]_vars

\* A connection on which the handling of messages fails: frames that are
\* not JSON, a callback that raises, a handler that raises
Contained ==
    UNCHANGED <<signer_vars, fetch_vars, wire_vars, data_vars, race_vars,
                resolver_vars, trade_vars, close_vars>>

NextContain ==
    \/ start /\ StreamOnly
    \/ RunEventLoop /\ StreamOnly
    \/ BeginConnect /\ StreamOnly
    \/ ConnectSucceeds /\ StreamOnly
    \/ StopSetEvent /\ StreamOnly
    \/ \E f \in InboundFrames(arrived + 1) : FrameArrives(f) /\ DispatchOnly
    \/ ReadLogged /\ Contained
    \/ \E now \in Times : RunCallback(now) /\ DataAndDispatch
    \/ RunCallbackRaises /\ Contained
    \/ RunHandler /\ DispatchOnly
    \/ RunHandlerRaises /\ Contained

SpecContain == Init /\ [][NextContain]_vars

\* A client that is started, connects, and is closed through DataStream
CloseFrame ==
    UNCHANGED <<signer_vars, fetch_vars, wire_vars, data_vars, dispatch_vars,
                race_vars, resolver_vars, trade_vars, failed>>

NextClose ==
    \/ start /\ StreamOnly
    \/ RunEventLoop /\ StreamOnly
    \/ BeginConnect /\ StreamOnly
    \/ LeaveLoop /\ StreamOnly
    \/ ConnectSucceeds /\ StreamOnly
    \/ ConnectFails /\ StreamOnly
    \/ BackoffOver /\ StreamOnly
    \/ HandlerSeesClose /\ StreamOnly
    \/ WorkerExits /\ StreamOnly
    \/ DisconnectBegins /\ StreamOnly
    \/ DisconnectEnds /\ StreamOnly
    \/ close_begin /\ CloseFrame
    \/ StopCheckLoop /\ StreamOnly
    \/ StopSchedule /\ StreamOnly
    \/ StopJoin /\ StreamOnly
    \/ close_end /\ CloseFrame /\ UNCHANGED stream_vars
    \/ rest_close /\ CloseFrame /\ UNCHANGED stream_vars

SpecClose == Init /\ [][NextClose]_vars

\* A DataStream that tracks BTC tracks again, receives ticks, is read and
\* is closed
NextCap ==
    \/ \E hc \in HistoryCounts :
          load_symbol("btc", <<"1m">>, hc, TRUE) /\ DataOnly
    \/ load_symbol("btc", <<"5m">>, 1, TRUE) /\ DataOnly
    \/ load_symbol("DOGE", <<"1m">>, MaxHistory, TRUE) /\ DataOnly
    \/ LoadTimeframe([kind |-> "raises", bars |-> <<>>]) /\ DataOnly
    \/ LoadTimeframe([kind |-> "bars", bars |-> Ascending(MaxBars)])
          /\ DataOnly
    \/ LoadFinish /\ DataOnly
    \/ \E pr \in WsPairs :
          DeliverFrame(TickFrame(pr, TRUE, ticks + 1), MaxBars + 1)
             /\ DataAndDispatch
    \/ get_data("btc", "1m") /\ RaceOnly
    \/ get_latest_candle("btc", "1m") /\ RaceOnly
    \/ close_begin /\ CloseFrame
    \/ StopCheckLoop /\ StreamOnly
    \/ StopJoin /\ StreamOnly
    \/ close_end /\ CloseFrame /\ UNCHANGED stream_vars

SpecCap == InitRace /\ [][NextCap]_vars

\* DataStream in a zone with or without summer time
InitTimeline ==
    /\ SignerInit
    /\ FetchInit(DefaultMaxRetries)
    /\ StreamInit
    /\ WireInit
    /\ \E zone \in {0, DstEnd} : DataInit(zone)
    /\ DispatchInit
    /\ RaceInit
    /\ ResolverInit
    /\ TradeInit
    /\ CloseInit

\* DataStream: load_symbol on the calling thread, the live frames its
\* callback gets from the stream client's thread
NextTimeline ==
    \/ add_data_callback /\ DataOnly
    \/ add_error_callback /\ DataOnly
    \/ \E sym \in SymbolArgs, tfs \in TimeframeLists, hc \in HistoryCounts,
          ok \in BOOLEAN : load_symbol(sym, tfs, hc, ok) /\ DataOnly
    \/ \E ans \in Answers : LoadTimeframe(ans) /\ DataOnly
    \/ LoadFinish /\ DataOnly
    \/ \E f \in CallbackFrames(ticks + 1), now \in Times :
          LiveFrame(f, now) /\ DataOnly

SpecTimeline == InitTimeline /\ [][NextTimeline]_vars

\* DataStream with BTC loaded at one timeframe, and the frames its callback
\* gets, each kept as the frame being processed
NextLive ==
    \/ add_data_callback /\ DataOnly
    \/ add_error_callback /\ DataOnly
    \/ \E tfs \in {<<"1m">>, <<"5m">>}, hc \in HistoryCounts :
          load_symbol("btc", tfs, hc, TRUE) /\ DataOnly
    \/ \E r \in Responses :
          LoadTimeframe([kind |-> "bars", bars |-> r]) /\ DataOnly
    \/ LoadFinish /\ DataOnly
    \/ \E f \in CallbackFrames(ticks + 1), now \in Times :
          DeliverFrame(f, now) /\ DataAndDispatch

SpecLive == Init /\ [][NextLive]_vars

\* One connection of the stream client and the dispatch of its frames to
\* DataStream, which tracks BTC
NextDispatch ==
    \/ start /\ StreamOnly
    \/ RunEventLoop /\ StreamOnly
    \/ BeginConnect /\ StreamOnly
    \/ ConnectSucceeds /\ StreamOnly
    \/ StopSetEvent /\ StreamOnly
    \/ load_symbol("btc", <<"1m">>, 1, TRUE) /\ DataOnly
    \/ LoadTimeframe([kind |-> "bars", bars |-> Ascending(1)]) /\ DataOnly
    \/ LoadFinish /\ DataOnly
    \/ \E f \in InboundFrames(arrived + 1) : FrameArrives(f) /\ DispatchOnly
    \/ ReadMessage /\ StreamAndDispatch
    \/ \E now \in Times : RunCallback(now) /\ DataAndDispatch
    \/ RunHandler /\ DispatchOnly

SpecDispatch == Init /\ [][NextDispatch]_vars

====
